---------------------------- MODULE Spec2Model ----------------------------
(***************************************************************************)
(* Order-state synchronization of the OTC front end: WebSocketService      *)
(* (src/otc/js/services/WebSocket.js) with its ledger, its transport and   *)
(* its consumers as environment.                                           *)
(*                                                                         *)
(* JavaScript runs one task at a time, so every action below is the code   *)
(* that runs between two awaits: an async call is a process whose pc names *)
(* the source line of the await it is suspended at, or of the return it    *)
(* left through.                                                           *)
(***************************************************************************)
EXTENDS Integers, Sequences, FiniteSets, TLC

\* ------------------------------------------------------------- bounds
\* Orders the ledger may allocate (ids 0 .. MaxOrders-1).
MaxOrders == 2
\* Calls of initialize()/reconnect() that may be in flight at once.
NProcs == 2
\* Callbacks the consumers may have registered at once, over all events.
MaxSubs == 2
\* Calls of Cleanup.initialize().
MaxCleanupCalls == 3

\* ---------------------------------------------------- program constants
MaxReconnectAttempts == 5
ReconnectDelay == 1000
\* the polls of Cleanup.initialize's wait loop: while (attempts < 10)
MaxAttempts == 10

Ids == 0 .. (MaxOrders - 1)
Procs == 1 .. NProcs
AddressZero == "0x0"
\* undefined: the value of a field or property that was never set
Undefined == "undefined"
Makers == {"0xA"}
\* a maker who is not the user of the page
OtherMaker == "0xB"
\* what window.walletManager.getAccount() resolves to: the user's address as
\* the wallet spells it
UserAddress == "0xa"
Callbacks == {"cb1", "cb2"}
EventNames == {"orderSyncComplete", "OrderCreated", "OrderFilled",
               "OrderCanceled", "ordersUpdated"}
\* ['Active', 'Filled', 'Canceled'][order.status]
StatusName(s) == <<"Active", "Filled", "Canceled">>[s + 1]

VARIABLES
    \* the remote ledger (the contract's storage)
    ledger,             \* id -> [maker, status], status 0 = Active, 1 = Filled, 2 = Canceled
    nextOrderId,        \* the allocation bound
    \* WebSocketService
    isInitialized,
    reconnectAttempts,
    orderCache,         \* Map id -> order record
    subscribers,        \* Map eventName -> Set (in insertion order) of callbacks
    provider,           \* this.provider: 0 = null, else the slot whose provider it is
    \* the transport: the WebSocketProvider that the call in slot p created last
    provs,              \* p -> [state, orders, disc, feed]
    \* the async calls in flight:
    \* p -> [pc, kind, bound, boundOk, idx, delay, attempt, failed, superseded]
    procs,
    \* the last publication, as the consumers saw it
    lastPublish,
    \* the last call of a method of the service by a consumer, and how it ended
    lastCall,
    \* the MyOrders component: [pc, orders, pending]
    myOrders,
    \* the Cleanup component: [pc, attempts, webSocket, contract, calls]
    cleanup

vars == <<ledger, nextOrderId, isInitialized, reconnectAttempts, orderCache,
          subscribers, provider, provs, procs, lastPublish, lastCall, myOrders,
          cleanup>>

EmptyMap == [k \in {} |-> 0]
NoOrder == [maker |-> AddressZero, status |-> 0]
\* A provider: state none | connecting | open | failed | closed; orders = the
\* number of contracts on it whose contract.on handlers are registered; disc =
\* the number of "disconnect" handlers registered on it; feed = the ledger events it has
\* received and not yet handed to the handlers. A provider that failed to
\* connect or was disconnected emits nothing more: its handlers are dropped.
NoProvider == [state |-> "none", orders |-> 0, disc |-> 0, feed |-> <<>>]
\* An async call: pc = the line of the await it is suspended at (ready32,
\* next148, orders160, timer222) or of the return it left through (ret23 and
\* ret50 return true, ret215 returns false, ret187 and ret192 end syncAllOrders);
\* kind = init for a call of initialize() from outside, disc for the disconnect
\* handler's reconnect(), sync for a call of syncAllOrders() from outside;
\* bound, idx = syncAllOrders' nextOrderId and i, boundOk = its query of
\* the bound did not throw; delay = reconnect's delay and
\* attempt = the attempt number it logs with it (line 220);
\* failed = the ids whose fetch threw in this sync; superseded = another
\* syncAllOrders started after this one did; contract = the slot of the
\* provider that the call's contract is made on (this.provider at line 38,
\* read after the await of line 32), 0 before.
IdleProc == [pc |-> "idle", kind |-> "init", bound |-> 0, boundOk |-> TRUE,
             idx |-> 0, delay |-> 0, attempt |-> 0, failed |-> {},
             superseded |-> FALSE, contract |-> 0]
NoPublish == [event |-> "none", invoked |-> <<>>, threw |-> {}, escaped |-> FALSE,
              data |-> <<>>, calls |-> 0]
\* A call of unsubscribe, removeOrder, removeOrders or getOrders by a consumer:
\* its arguments, what it returned and whether it threw.
NoCall == [op |-> "none", args |-> <<>>, result |-> <<>>, threw |-> FALSE]
\* The MyOrders component: pc = idle before its initialize() has subscribed,
\* loading until the orders of the cache are loaded, loaded after; orders =
\* this.orders, Map id -> reference to an order object; pending = the work of
\* its async functions that waits for getAccount(), oldest first.
\* A reference to an order object is [id, maker, status, live]: live = the
\* object is the one the cache holds for the id, so that it is the cache's
\* handlers that write its status; else status is what the object was left with.
NoMyOrders == [pc |-> "idle", orders |-> [k \in {} |-> 0], pending |-> <<>>]
\* The Cleanup component: pc = none before it is constructed, idle with no
\* initialize() running, polling at the await of its wait loop (line 31),
\* ready after setupWebSocket, failed after the catch of lines 105-109;
\* attempts = the loop's counter; webSocket = this.webSocket is the service
\* (FALSE: undefined); contract = window.webSocket.contract is set, a field
\* that the service of otctest assigns outside this code; calls = the calls
\* of initialize() so far; receipt = what `await tx.wait()` gave performCleanup
\* last: status 1 with the orders its OrderCleanedUp events name, status 0
\* for a transaction that failed (-1: no transaction yet).
NoReceipt == [status |-> -1, cleaned |-> {}]
NoCleanup == [pc |-> "none", attempts |-> 0, webSocket |-> FALSE,
              contract |-> FALSE, calls |-> 0, receipt |-> NoReceipt]
ReturnPcs == {"ret23", "ret50", "ret215", "ret187", "ret192"}
FreePcs == {"idle"} \cup ReturnPcs
SyncPcs == {"next148", "orders160"}
Range(f) == {f[x] : x \in DOMAIN f}

\* ------------------------------------------------------------- helpers
RECURSIVE Pow(_, _)
\* Math.pow on small non-negative integers
Pow(b, e) == IF e <= 0 THEN 1 ELSE b * Pow(b, e - 1)

\* A faulty variant of BackoffDelay: the exponent is the attempt number itself.
BackoffDelayNoMinusOne(n) == ReconnectDelay * Pow(2, n)

\* reconnectDelay * Math.pow(2, reconnectAttempts - 1)
BackoffDelay(n) == ReconnectDelay * Pow(2, n - 1)

\* Map.set
MapSet(m, k, v) == [x \in DOMAIN m \cup {k} |-> IF x = k THEN v ELSE m[x]]
\* Map.delete
MapDelete(m, k) == [x \in DOMAIN m \ {k} |-> m[x]]

RECURSIVE ForEachUncaught(_, _, _)
\* A faulty variant of ForEachCaught: no try/catch around the callback.
ForEachUncaught(cbs, k, throwers) ==
    IF k > Len(cbs)
    THEN [invoked |-> <<>>, threw |-> {}, escaped |-> FALSE]
    ELSE IF cbs[k] \in throwers
         THEN [invoked |-> <<cbs[k]>>, threw |-> {cbs[k]}, escaped |-> TRUE]
         ELSE LET rest == ForEachUncaught(cbs, k + 1, throwers)
              IN  [invoked |-> <<cbs[k]>> \o rest.invoked,
                   threw   |-> rest.threw,
                   escaped |-> rest.escaped]

RECURSIVE ForEachCaught(_, _, _)
\* subscribers.forEach(callback => { try { callback(data) } catch { } })
ForEachCaught(cbs, k, throwers) ==
    IF k > Len(cbs)
    THEN [invoked |-> <<>>, threw |-> {}, escaped |-> FALSE]
    ELSE LET rest == ForEachCaught(cbs, k + 1, throwers)
         IN  [invoked |-> <<cbs[k]>> \o rest.invoked,
              threw   |-> ({cbs[k]} \cap throwers) \cup rest.threw,
              escaped |-> rest.escaped]

\* notifySubscribers(eventName, data), the callbacks in `throwers` throwing
NotifySubscribers(eventName, throwers) ==
    IF eventName \in DOMAIN subscribers
    THEN ForEachCaught(subscribers[eventName], 1, throwers)
    ELSE [invoked |-> <<>>, threw |-> {}, escaped |-> FALSE]

\* What the consumers saw of the notifySubscribers calls a handler made for
\* eventName (calls of them; r, data: the outcome and the argument of the last).
Published(eventName, r, data, calls) ==
    [event |-> eventName, invoked |-> r.invoked, threw |-> r.threw,
     escaped |-> r.escaped, data |-> data, calls |-> calls]

\* String(i), as a key: Map and Set compare keys with SameValueZero, so the
\* string of a number is never the number.
StrKey(i) == [type |-> "string", val |-> i]
NumKey(i) == [type |-> "number", val |-> i]

\* Object.fromEntries(map): an object has string keys
ObjectFromEntries(m) == [k \in {StrKey(i) : i \in DOMAIN m} |-> m[k.val]]

\* The lowest free slot takes the next call.
Free == {p \in Procs : procs[p].pc \in FreePcs}
NewProc(p) == p \in Free /\ \A q \in Free : p <= q

\* ---------------------------------------------------------------- Init
Init ==
    /\ ledger = [i \in Ids |-> NoOrder]
    /\ nextOrderId = 0
    /\ isInitialized = FALSE
    /\ reconnectAttempts = 0
    /\ orderCache = EmptyMap
    /\ subscribers = EmptyMap
    /\ provider = 0
    /\ provs = [p \in Procs |-> NoProvider]
    /\ procs = [p \in Procs |-> IdleProc]
    /\ lastPublish = NoPublish
    /\ lastCall = NoCall
    /\ myOrders = NoMyOrders
    /\ cleanup = NoCleanup


\* ------------------------------------------------- WebSocketService code
\* A faulty variant of Reconnect: the test of line 213 is missing.
ReconnectUnbounded(n) ==
    [attempts |-> n + 1, pc |-> "timer222", delay |-> BackoffDelay(n + 1),
     attempt |-> n + 1]

\* A faulty variant of Reconnect: > for >= in the test of line 213.
ReconnectOneTooMany(n) ==
    IF n > MaxReconnectAttempts
    THEN [attempts |-> n, pc |-> "ret215", delay |-> 0, attempt |-> 0]
    ELSE [attempts |-> n + 1, pc |-> "timer222", delay |-> BackoffDelay(n + 1),
          attempt |-> n + 1]

\* reconnect() from its first line to its await, with reconnectAttempts = n:
\* the counter after it, where the call is left and the delay it waits.
Reconnect(n) ==
    IF n >= MaxReconnectAttempts
    THEN [attempts |-> n, pc |-> "ret215", delay |-> 0, attempt |-> 0]
    ELSE [attempts |-> n + 1, pc |-> "timer222", delay |-> BackoffDelay(n + 1),
          attempt |-> n + 1]

\* A faulty variant of AttemptsOnSuccess: line 48 is missing.
AttemptsKept(n) == n

\* this.reconnectAttempts = 0 (48), n being the counter before
AttemptsOnSuccess(n) == 0

\* A faulty variant of Initialized: the flag is set in a finally.
InitializedAnyway(flag, thrown) == TRUE

\* isInitialized when initialize has ended, flag being its value before: line
\* 46 sets it unless an exception took the call to the catch of lines 51-54.
Initialized(flag, thrown) == IF thrown THEN flag ELSE TRUE

\* A faulty variant of Initialize: the test of line 23 is missing.
InitializeUnguarded(p, k) ==
    /\ procs' = [procs EXCEPT ![p] = [IdleProc EXCEPT !.pc = "ready32", !.kind = k]]
    /\ provider' = p
    /\ provs' = [provs EXCEPT ![p] = [NoProvider EXCEPT !.state = "connecting"]]

\* initialize() from its first line to `await this.provider.ready` (21-32),
\* for the call in slot p, of kind k.
Initialize(p, k) ==
    IF isInitialized
    THEN /\ procs' = [procs EXCEPT ![p] = [IdleProc EXCEPT !.pc = "ret23", !.kind = k]]
         /\ UNCHANGED <<provider, provs>>
    ELSE /\ procs' = [procs EXCEPT ![p] = [IdleProc EXCEPT !.pc = "ready32", !.kind = k]]
         /\ provider' = p
         /\ provs' = [provs EXCEPT ![p] = [NoProvider EXCEPT !.state = "connecting"]]

\* setupEventListeners(contract) run by the call in slot p: the disconnect
\* handler goes on this.provider, the contract.on handlers on the call's
\* contract, that is, on the provider the contract was made on.
SetupEventListeners(p) ==
    LET live(q) == provs[q].state \in {"connecting", "open"}
        c == procs[p].contract
        withDisc == IF provider # 0 /\ live(provider)
                    THEN [provs EXCEPT ![provider].disc = @ + 1]
                    ELSE provs
    IN  IF live(c) THEN [withDisc EXCEPT ![c].orders = @ + 1] ELSE withDisc

\* A faulty variant of SyncOutcome: the catch's statements run as a finally.
SyncOutcomeFinally(c, throwers) ==
    [cache |-> EmptyMap, pub |-> NotifySubscribers("orderSyncComplete", throwers),
     thrown |-> FALSE, data |-> EmptyMap, calls |-> 2]

\* The end of syncAllOrders with the rebuilt cache c (186-193): what it leaves
\* in the cache, what the consumers saw, and whether it threw.
SyncOutcome(c, throwers) ==
    LET r1 == NotifySubscribers("orderSyncComplete", throwers)
        r2 == NotifySubscribers("orderSyncComplete", throwers)
    IN  IF ~r1.escaped
        THEN [cache |-> c, pub |-> r1, thrown |-> FALSE,
              data |-> ObjectFromEntries(c), calls |-> 1]
        ELSE [cache |-> EmptyMap, pub |-> r2, thrown |-> r2.escaped,
              data |-> EmptyMap, calls |-> 2]

\* The last statements of syncAllOrders and, back in initialize, lines 43-50
\* (or its catch, should syncAllOrders throw), for the call in slot p with the
\* rebuilt cache c, the failed fetches f and the bound query's outcome q.
FinishSync(p, c, f, q, throwers) ==
    LET o == SyncOutcome(c, throwers)
        r == Reconnect(reconnectAttempts)
    IN  /\ orderCache' = o.cache
        /\ lastPublish' = Published("orderSyncComplete", o.pub, o.data, o.calls)
        /\ lastCall' = lastCall
        /\ provider' = provider
        /\ IF procs[p].kind = "sync"
           THEN /\ UNCHANGED <<provs, isInitialized, reconnectAttempts>>
                /\ procs' = [procs EXCEPT ![p] = [IdleProc EXCEPT !.pc = "ret187",
                                                               !.kind = "sync",
                                                               !.bound = procs[p].bound,
                                                               !.boundOk = q,
                                                               !.failed = f]]
           ELSE IF ~o.thrown
           THEN /\ provs' = SetupEventListeners(p)
                /\ isInitialized' = Initialized(isInitialized, FALSE)
                /\ reconnectAttempts' = AttemptsOnSuccess(reconnectAttempts)
                /\ procs' = [procs EXCEPT ![p] = [IdleProc EXCEPT !.pc = "ret50",
                                                               !.kind = procs[p].kind,
                                                               !.bound = procs[p].bound,
                                                               !.boundOk = q,
                                                               !.failed = f]]
           ELSE /\ provs' = provs
                /\ isInitialized' = Initialized(isInitialized, TRUE)
                /\ reconnectAttempts' = r.attempts
                /\ procs' = [procs EXCEPT ![p] = [IdleProc EXCEPT !.pc = r.pc,
                                                               !.delay = r.delay,
                                                               !.attempt = r.attempt,
                                                               !.kind = procs[p].kind]]

\* A faulty variant of Cleared: the cache is rebuilt over what it held.
NotCleared(cache) == cache

\* this.orderCache.clear() (155): the cache after it
Cleared(cache) == EmptyMap

\* A faulty variant of BoundOr: the bound starts at 1, not 0.
BoundOrOne(ok, n) == IF ok THEN n ELSE 1

\* let nextOrderId = 0; try { nextOrderId = await contract.nextOrderId() }
\* catch { } (146-152): the bound after it, the ledger's counter being n
BoundOr(ok, n) == IF ok THEN n ELSE 0

\* A faulty variant of OrderData: the id is counted from 1.
OrderDataOneBased(i, order) ==
    [id |-> i + 1, maker |-> order.maker, status |-> StatusName(order.status)]

\* The record syncAllOrders caches for ledger order i (164-176)
OrderData(i, order) ==
    [id |-> i, maker |-> order.maker, status |-> StatusName(order.status)]

\* A faulty variant of SyncOne: the maker is not tested.
SyncOneAnyMaker(cache, i, ok) ==
    IF ok /\ ledger[i].status = 0
    THEN MapSet(cache, i, OrderData(i, ledger[i]))
    ELSE cache

\* One pass of the loop body (160-183) for id i: the cache after it.
SyncOne(cache, i, ok) ==
    IF ok /\ ledger[i].maker # AddressZero /\ ledger[i].status = 0
    THEN MapSet(cache, i, OrderData(i, ledger[i]))
    ELSE cache

\* contract.on("OrderCreated", ...) (80-112): the cache after it
OnOrderCreated(cache, e) ==
    MapSet(cache, e.id, [id |-> e.id, maker |-> e.maker, status |-> "Active"])

\* A faulty variant of OnOrderFilled: the status written is that of the
\* OrderCanceled handler.
OnOrderFilledAsCanceled(cache, e) ==
    IF e.id \in DOMAIN cache
    THEN [cache EXCEPT ![e.id].status = "Canceled"]
    ELSE cache

\* A faulty variant of OnOrderFilled: no test that the order is cached.
OnOrderFilledUpsert(cache, e) ==
    MapSet(cache, e.id, [id |-> e.id, maker |-> e.maker, status |-> "Filled"])

\* contract.on("OrderFilled", ...) (114-124): the cache after it
OnOrderFilled(cache, e) ==
    IF e.id \in DOMAIN cache
    THEN [cache EXCEPT ![e.id].status = "Filled"]
    ELSE cache

\* contract.on("OrderCanceled", ...) (126-133): the cache after it
OnOrderCanceled(cache, e) ==
    IF e.id \in DOMAIN cache
    THEN [cache EXCEPT ![e.id].status = "Canceled"]
    ELSE cache

\* The provider of the contract that the call in slot p works with is open:
\* initialize makes the contract on this.provider (35-39), a caller of
\* syncAllOrders passes the service's contract.
ContractOpen(p) ==
    IF procs[p].kind = "sync"
    THEN provider # 0 /\ provs[provider].state = "open"
    ELSE provs[procs[p].contract].state = "open"

\* ------------------------------------------------- MyOrders (the view)
\* String.prototype.toLowerCase on the addresses of the model
ToLowerCase(s) == CASE s = "0xA" -> "0xa"
                    [] s = "0xB" -> "0xb"
                    [] OTHER -> s

\* A faulty variant of IsMine: the maker is not compared.
IsAnyones(order) == TRUE

\* order.maker.toLowerCase() === userAddress.toLowerCase() (MyOrders.js 47, 86, 102)
IsMine(order) == ToLowerCase(order.maker) = ToLowerCase(UserAddress)

\* The callback that MyOrders.setupWebSocket (79-126) makes for an event
MyOrdersEvents == {"orderSyncComplete", "OrderCreated", "OrderFilled",
                   "OrderCanceled"}
MyOrdersCallback(eventName) ==
    CASE eventName = "orderSyncComplete" -> "MyOrders.orderSyncComplete"
      [] eventName = "OrderCreated" -> "MyOrders.OrderCreated"
      [] eventName = "OrderFilled" -> "MyOrders.OrderFilled"
      [] eventName = "OrderCanceled" -> "MyOrders.OrderCanceled"

\* A reference to the object that the cache holds for an order
Reference(order) ==
    [id |-> order.id, maker |-> order.maker, status |-> order.status, live |-> TRUE]

\* The cache has dropped or replaced the objects of the orders ids
\* (orderCache.clear(), .delete(id), .set(id, a new object)): the references
\* that MyOrders holds to them keep the objects as they were left.
Forgotten(view, ids) ==
    LET old(r) == IF r.live /\ r.id \in ids THEN [r EXCEPT !.live = FALSE] ELSE r
    IN  [pc      |-> view.pc,
         orders  |-> [i \in DOMAIN view.orders |-> old(view.orders[i])],
         pending |-> [n \in DOMAIN view.pending |->
                        [kind |-> view.pending[n].kind,
                         refs |-> {old(r) : r \in view.pending[n].refs}]]]

\* A handler of the cache has written the status of the object it holds for
\* id (lines 118, 128): every reference to that object reads the new status.
Written(view, id, status) ==
    LET new(r) == IF r.live /\ r.id = id THEN [r EXCEPT !.status = status] ELSE r
    IN  [pc      |-> view.pc,
         orders  |-> [i \in DOMAIN view.orders |-> new(view.orders[i])],
         pending |-> [n \in DOMAIN view.pending |->
                        [kind |-> view.pending[n].kind,
                         refs |-> {new(r) : r \in view.pending[n].refs}]]]

RECURSIVE SetEach(_, _)
\* refs.forEach(order => { this.orders.set(order.id, order) }) (51-53, 87-89)
SetEach(orders, refs) ==
    IF refs = {} THEN orders
    ELSE LET r == CHOOSE x \in refs : TRUE
         IN  SetEach(MapSet(orders, r.id, r), refs \ {r})

\* The body of an async function of MyOrders from the point where getAccount()
\* has resolved: initialize's lines 46-54 (load; cached = what getOrders()
\* returns), the orderSyncComplete callback's 83-89 (sync), the OrderCreated
\* callback's 102-108 (created).
Resumed(view, task, cached) ==
    CASE task.kind = "load" ->
           [view EXCEPT !.pc = "loaded",
                        !.orders = SetEach(@, {r \in cached : IsMine(r)})]
      [] task.kind = "sync" ->
           [view EXCEPT !.orders = SetEach(EmptyMap, {r \in task.refs : IsMine(r)})]
      [] task.kind = "created" ->
           [view EXCEPT !.orders = SetEach(@, {r \in task.refs : IsMine(r)})]

\* A faulty variant of StartAsync: the publisher awaits the callback's promise,
\* so that the work after getAccount() is done before the publisher goes on.
StartAwaited(view, task) == Resumed(view, task, {})

\* An async callback of MyOrders is called (81-82, 100-101): it runs to its
\* `await window.walletManager.getAccount()` and returns a promise to the
\* forEach of notifySubscribers (288), which drops it; the rest of its body is
\* work that waits.
StartAsync(view, task) == [view EXCEPT !.pending = Append(@, task)]

\* The OrderFilled / OrderCanceled callback of MyOrders (116-124)
OnStatusChange(view, order, eventName) ==
    IF order.id \in DOMAIN view.orders
    THEN [view EXCEPT !.orders[order.id].status =
              IF eventName = "OrderFilled" THEN "Filled" ELSE "Canceled"]
    ELSE view

\* What the callbacks of MyOrders do when notifySubscribers calls them, pub
\* being what was published.
Notified(view, pub) ==
    IF pub.event \notin MyOrdersEvents
          \/ MyOrdersCallback(pub.event) \notin Range(pub.invoked)
    THEN view
    ELSE CASE pub.event = "orderSyncComplete" ->
                StartAsync(view, [kind |-> "sync",
                                  refs |-> {Reference(pub.data[k]) : k \in DOMAIN pub.data}])
           [] pub.event = "OrderCreated" ->
                StartAsync(view, [kind |-> "created", refs |-> {Reference(pub.data)}])
           [] OTHER -> OnStatusChange(view, pub.data, pub.event)

\* The loop body of syncAllOrders sets the cache's entry for i (170-181)
SyncSets(i, ok) == ok /\ ledger[i].maker # AddressZero /\ ledger[i].status = 0

\* ------------------------------------------------------------- actions
\* initialize() is called from outside.
CallInitialize(p) ==
    /\ NewProc(p)
    /\ Initialize(p, "init")
    /\ UNCHANGED <<cleanup, myOrders, ledger, nextOrderId, isInitialized, reconnectAttempts,
                   orderCache, subscribers, lastPublish, lastCall>>

\* A faulty variant of AtReady: setupEventListeners is called before
\* syncAllOrders, on the contract just made.
AtReadyListening(p) ==
    [provs EXCEPT ![p].state = "open", ![provider].orders = @ + 1]

\* The providers after lines 33-41 of the call in slot p: its provider is
\* open, and no handler is registered before syncAllOrders has run.
AtReady(p) == [provs EXCEPT ![p].state = "open"]

\* `await this.provider.ready` resolves: the contract is made and syncAllOrders
\* runs to `await contract.nextOrderId()`.
ProviderReady(p) ==
    /\ procs[p].pc = "ready32"
    /\ provs' = AtReady(p)
    /\ procs' = [q \in Procs |->
                    IF q = p THEN [procs[p] EXCEPT !.pc = "next148",
                                                   !.contract = provider]
                    ELSE IF procs[q].pc \in SyncPcs
                         THEN [procs[q] EXCEPT !.superseded = TRUE]
                         ELSE procs[q]]
    /\ UNCHANGED <<cleanup, myOrders, ledger, nextOrderId, isInitialized, reconnectAttempts,
                   orderCache, subscribers, provider, lastPublish, lastCall>>

\* `await this.provider.ready` rejects: initialize's catch calls reconnect().
ProviderFails(p) ==
    /\ procs[p].pc = "ready32"
    /\ LET r == Reconnect(reconnectAttempts)
       IN  /\ reconnectAttempts' = r.attempts
           /\ procs' = [procs EXCEPT ![p].pc = r.pc, ![p].delay = r.delay,
                                     ![p].attempt = r.attempt]
    /\ provs' = [provs EXCEPT ![p] = [NoProvider EXCEPT !.state = "failed"]]
    /\ isInitialized' = Initialized(isInitialized, TRUE)
    /\ UNCHANGED <<cleanup, myOrders, ledger, nextOrderId, orderCache, subscribers,
                   provider, lastPublish, lastCall>>

\* reconnect's timer fires: it calls initialize().
TimerFires(p) ==
    /\ procs[p].pc = "timer222"
    /\ Initialize(p, procs[p].kind)
    /\ UNCHANGED <<cleanup, myOrders, ledger, nextOrderId, isInitialized, reconnectAttempts,
                   orderCache, subscribers, lastPublish, lastCall>>

\* `await contract.nextOrderId()` settles (ok: resolves): the cache is cleared
\* and the loop runs to its first `await contract.orders(i)`, or, with nothing
\* to fetch, syncAllOrders ends.
NextOrderIdSettles(p, ok, throwers) ==
    /\ procs[p].pc = "next148"
    /\ ok => ContractOpen(p)
    /\ LET b == BoundOr(ok, nextOrderId)
       IN  IF 0 < b
           THEN /\ orderCache' = Cleared(orderCache)
                /\ procs' = [procs EXCEPT ![p].pc = "orders160", ![p].bound = b,
                                          ![p].boundOk = ok, ![p].idx = 0]
                /\ UNCHANGED <<isInitialized, reconnectAttempts, provider, provs,
                               lastPublish, lastCall>>
                /\ myOrders' = Forgotten(myOrders, DOMAIN orderCache)
           ELSE /\ FinishSync(p, Cleared(orderCache), {}, ok, throwers)
                /\ myOrders' = Notified(Forgotten(myOrders, DOMAIN orderCache),
                                        lastPublish')
    /\ UNCHANGED <<cleanup, ledger, nextOrderId, subscribers>>

\* `await contract.orders(i)` settles (ok: resolves): the loop body runs for i,
\* then the loop goes on to the next await or syncAllOrders ends.
OrderSettles(p, ok, throwers) ==
    /\ procs[p].pc = "orders160"
    /\ ok => ContractOpen(p)
    /\ LET i == procs[p].idx
           c == SyncOne(orderCache, i, ok)
           f == IF ok THEN procs[p].failed ELSE procs[p].failed \cup {i}
           w == IF SyncSets(i, ok) THEN {i} ELSE {}
       IN  IF i + 1 < procs[p].bound
           THEN /\ orderCache' = c
                /\ procs' = [procs EXCEPT ![p].idx = i + 1, ![p].failed = f]
                /\ UNCHANGED <<isInitialized, reconnectAttempts, provider, provs,
                               lastPublish, lastCall>>
                /\ myOrders' = Forgotten(myOrders, w)
           ELSE /\ FinishSync(p, c, f, procs[p].boundOk, throwers)
                /\ myOrders' = Notified(Forgotten(myOrders, w), lastPublish')
    /\ UNCHANGED <<cleanup, ledger, nextOrderId, subscribers>>

\* syncAllOrders(contract), called from outside initialize, runs in slot p to
\* its first await. hasContract: contract is the service's contract, which the
\* caller has waited for; else it is undefined, line 143 throws and the catch
\* of lines 189-193 ends the call.
SyncAllOrders(p, hasContract, throwers) ==
    /\ hasContract => isInitialized
    /\ IF hasContract
       THEN /\ procs' = [q \in Procs |->
                            IF q = p
                            THEN [IdleProc EXCEPT !.pc = "next148", !.kind = "sync"]
                            ELSE IF procs[q].pc \in SyncPcs
                                 THEN [procs[q] EXCEPT !.superseded = TRUE]
                                 ELSE procs[q]]
            /\ UNCHANGED <<orderCache, lastPublish, myOrders>>
       ELSE /\ procs' = [procs EXCEPT ![p] = [IdleProc EXCEPT !.pc = "ret192",
                                                              !.kind = "sync"]]
            /\ orderCache' = EmptyMap
            /\ lastPublish' = Published("orderSyncComplete",
                                        NotifySubscribers("orderSyncComplete", throwers),
                                        EmptyMap, 1)
            /\ myOrders' = Notified(Forgotten(myOrders, DOMAIN orderCache),
                                    lastPublish')
    /\ UNCHANGED <<cleanup, ledger, nextOrderId, isInitialized, reconnectAttempts,
                   subscribers, provider, provs, lastCall>>

\* syncAllOrders(contract) is called from outside initialize (as
\* Cleanup.performCleanup does, line 361).
CallSyncAllOrders(p, hasContract, throwers) ==
    /\ NewProc(p)
    /\ SyncAllOrders(p, hasContract, throwers)

\* ------------------------------------------------------------ the ledger
\* The ledger emits event e: every open provider receives it once for each
\* contract on it that has contract.on handlers, each of which is run in a
\* task of its own.
Emit(e) ==
    provs' = [p \in Procs |->
                 IF provs[p].state = "open" /\ provs[p].orders > 0
                 THEN [provs[p] EXCEPT !.feed = @ \o [n \in 1 .. provs[p].orders |-> e]]
                 ELSE provs[p]]

LedgerCreate(m) ==
    /\ nextOrderId < MaxOrders
    /\ ledger' = [ledger EXCEPT ![nextOrderId] = [maker |-> m, status |-> 0]]
    /\ nextOrderId' = nextOrderId + 1
    /\ Emit([kind |-> "OrderCreated", id |-> nextOrderId, maker |-> m])
    /\ UNCHANGED <<cleanup, myOrders, isInitialized, reconnectAttempts, orderCache, subscribers,
                   provider, procs, lastPublish, lastCall>>

LedgerFill(i) ==
    /\ ledger[i].maker # AddressZero /\ ledger[i].status = 0
    /\ ledger' = [ledger EXCEPT ![i].status = 1]
    /\ Emit([kind |-> "OrderFilled", id |-> i, maker |-> ledger[i].maker])
    /\ UNCHANGED <<cleanup, myOrders, nextOrderId, isInitialized, reconnectAttempts, orderCache,
                   subscribers, provider, procs, lastPublish, lastCall>>

LedgerCancel(i) ==
    /\ ledger[i].maker # AddressZero /\ ledger[i].status = 0
    /\ ledger' = [ledger EXCEPT ![i].status = 2]
    /\ Emit([kind |-> "OrderCanceled", id |-> i, maker |-> ledger[i].maker])
    /\ UNCHANGED <<cleanup, myOrders, nextOrderId, isInitialized, reconnectAttempts, orderCache,
                   subscribers, provider, procs, lastPublish, lastCall>>

\* The ledger deletes order i (a cleanup): its slot reads as the zero record.
\* The service registers no handler for the event of this.
LedgerCleanup(i) ==
    /\ ledger[i].maker # AddressZero
    /\ ledger' = [ledger EXCEPT ![i] = NoOrder]
    /\ UNCHANGED <<cleanup, myOrders, nextOrderId, isInitialized, reconnectAttempts, orderCache,
                   subscribers, provider, provs, procs, lastPublish, lastCall>>

\* ---------------------------------------------------------- the transport
\* A faulty variant of Arrived: the handlers' work is put off and done for the
\* newest event first.
ArrivedNewestFirst(feed) ==
    [event |-> feed[Len(feed)], rest |-> SubSeq(feed, 1, Len(feed) - 1)]

\* The event that a contract.on handler (80-133) is run for next, and those
\* left for later: the handlers are synchronous functions, each run to its
\* end for one event before the provider hands over the next, in the order
\* of arrival.
Arrived(feed) == [event |-> Head(feed), rest |-> Tail(feed)]

\* Provider c hands its oldest undelivered event to the contract.on handler.
Deliver(c, throwers) ==
    /\ provs[c].feed # <<>>
    /\ provs' = [provs EXCEPT ![c].feed = Arrived(@).rest]
    /\ LET e == Arrived(provs[c].feed).event
           r == NotifySubscribers(e.kind, throwers)
       IN  CASE e.kind = "OrderCreated" ->
                  /\ orderCache' = OnOrderCreated(orderCache, e)
                  /\ lastPublish' = Published(e.kind, r, orderCache'[e.id], 1)
                  /\ myOrders' = Notified(Forgotten(myOrders, {e.id}), lastPublish')
             [] e.kind = "OrderFilled" ->
                  /\ orderCache' = OnOrderFilled(orderCache, e)
                  /\ lastPublish' = IF e.id \in DOMAIN orderCache
                                    THEN Published(e.kind, r, orderCache'[e.id], 1)
                                    ELSE lastPublish
                  /\ myOrders' = IF e.id \in DOMAIN orderCache
                                 THEN Notified(Written(myOrders, e.id, orderCache'[e.id].status),
                                               lastPublish')
                                 ELSE myOrders
             [] e.kind = "OrderCanceled" ->
                  /\ orderCache' = OnOrderCanceled(orderCache, e)
                  /\ lastPublish' = IF e.id \in DOMAIN orderCache
                                    THEN Published(e.kind, r, orderCache'[e.id], 1)
                                    ELSE lastPublish
                  /\ myOrders' = IF e.id \in DOMAIN orderCache
                                 THEN Notified(Written(myOrders, e.id, orderCache'[e.id].status),
                                               lastPublish')
                                 ELSE myOrders
    /\ UNCHANGED <<cleanup, ledger, nextOrderId, isInitialized, reconnectAttempts,
                   subscribers, provider, procs, lastCall>>

RECURSIVE AttemptsAfter(_, _)
\* reconnectAttempts after j calls of reconnect() in a row, from n
AttemptsAfter(n, j) ==
    IF j = 0 THEN n ELSE Reconnect(AttemptsAfter(n, j - 1)).attempts

\* Provider c emits "disconnect": each disconnect handler registered on it
\* calls reconnect(), one after the other, each call in a slot of its own.
Disconnect(c) ==
    /\ provs[c].state = "open"
    /\ Cardinality(Free) >= provs[c].disc
    /\ provs' = [provs EXCEPT ![c] = [NoProvider EXCEPT !.state = "closed"]]
    /\ LET rank(q) == Cardinality({x \in Free : x < q})
           taken == {q \in Free : rank(q) < provs[c].disc}
       IN  /\ procs' = [q \in Procs |->
                           IF q \in taken
                           THEN LET r == Reconnect(AttemptsAfter(reconnectAttempts, rank(q)))
                                IN  [IdleProc EXCEPT !.kind = "disc", !.pc = r.pc,
                                                     !.delay = r.delay,
                                                     !.attempt = r.attempt]
                           ELSE procs[q]]
           /\ reconnectAttempts' = AttemptsAfter(reconnectAttempts, provs[c].disc)
    /\ UNCHANGED <<cleanup, myOrders, ledger, nextOrderId, isInitialized, orderCache, subscribers,
                   provider, lastPublish, lastCall>>

\* ---------------------------------------------------------- the consumers
NSubs == LET n[E \in SUBSET DOMAIN subscribers] ==
                 IF E = {} THEN 0
                 ELSE LET e == CHOOSE x \in E : TRUE
                      IN  Len(subscribers[e]) + n[E \ {e}]
         IN  n[DOMAIN subscribers]

\* A faulty variant of SetAdd: the callback is added though it is there.
SetAddAgain(set, cb) == Append(set, cb)

\* Set.add: a Set keeps its members in insertion order, each once
SetAdd(set, cb) == IF cb \in Range(set) THEN set ELSE Append(set, cb)

\* Set.delete
SetDelete(set, cb) == SelectSeq(set, LAMBDA x : x # cb)

\* subscribe(eventName, callback) (226-231)
Subscribe(eventName, cb) ==
    /\ NSubs < MaxSubs
    /\ subscribers' =
          LET withSet == IF eventName \notin DOMAIN subscribers
                         THEN MapSet(subscribers, eventName, <<>>)
                         ELSE subscribers
          IN  [withSet EXCEPT ![eventName] = SetAdd(@, cb)]
    /\ UNCHANGED <<cleanup, myOrders, ledger, nextOrderId, isInitialized, reconnectAttempts,
                   orderCache, provider, provs, procs, lastPublish, lastCall>>

\* A faulty variant of UnsubscribeFrom: no test that the event name has a Set,
\* so that for an unknown name the call is made on undefined and throws.
UnsubscribeUnguarded(subs, eventName, cb) ==
    IF eventName \in DOMAIN subs
    THEN [subs |-> [subs EXCEPT ![eventName] = SetDelete(@, cb)], threw |-> FALSE]
    ELSE [subs |-> subs, threw |-> TRUE]

\* The body of unsubscribe (234-236) on the registry subs: the registry after
\* it and whether it threw.
UnsubscribeFrom(subs, eventName, cb) ==
    IF eventName \in DOMAIN subs
    THEN [subs |-> [subs EXCEPT ![eventName] = SetDelete(@, cb)], threw |-> FALSE]
    ELSE [subs |-> subs, threw |-> FALSE]

\* unsubscribe(eventName, callback) (233-237)
Unsubscribe(eventName, cb) ==
    /\ LET u == UnsubscribeFrom(subscribers, eventName, cb)
       IN  /\ subscribers' = u.subs
           /\ lastCall' = [op |-> "unsubscribe", args |-> <<eventName, cb>>,
                           result |-> <<>>, threw |-> u.threw]
    /\ UNCHANGED <<cleanup, myOrders, ledger, nextOrderId, isInitialized, reconnectAttempts,
                   orderCache, provider, provs, procs, lastPublish>>

Throwers(eventName) ==
    IF eventName \in DOMAIN subscribers
    THEN SUBSET Range(subscribers[eventName])
    ELSE {{}}

\* The keys a consumer may pass for an order id: the number or its string.
Keys == {NumKey(i) : i \in Ids} \cup {StrKey(i) : i \in Ids}
\* The arrays of keys a consumer may pass: the ids of some orders, in
\* ascending order, all as numbers or all as strings.
KeyLists == {<<>>} \cup {<<k>> : k \in Keys}
               \cup {<<NumKey(i), NumKey(j)>> : i, j \in Ids}
               \cup {<<StrKey(i), StrKey(j)>> : i, j \in Ids}
\* getOrders' argument: no argument (null) or a status name
Null == "null"
Filters == {Null, "Active", "Filled", "Canceled"}

\* orderCache.delete(key): every key of the cache is a number (lines 101, 177)
MapDeleteKey(m, k) == IF k.type = "number" THEN MapDelete(m, k.val) ELSE m

RECURSIVE DeleteEach(_, _)
\* orderIds.forEach(orderId => { this.orderCache.delete(orderId) }) (269-271)
DeleteEach(m, orderIds) ==
    IF orderIds = <<>> THEN m
    ELSE DeleteEach(MapDeleteKey(m, Head(orderIds)), Tail(orderIds))

\* Array.from(this.orderCache.values()), as the set of its elements (the order
\* of insertion into the cache is left out of the model)
Values(m) == {m[k] : k \in DOMAIN m}

\* A faulty variant of ArrayFrom: the Map's own iterator is handed out, which
\* yields what the Map holds when it is read.
ValuesIterator(elems, cache) == Values(cache)

\* Array.from(this.orderCache.values()) (199) and orders.filter(...) (202) make
\* a new array of the elements elems: what a holder of that array reads in it
\* while the cache is `cache`.
ArrayFrom(elems, cache) == elems

\* A faulty variant of GetOrdersOf: orders that do not have the status pass.
GetOrdersNegated(cache, filterStatus) ==
    IF filterStatus # Null
    THEN {order \in Values(cache) : order.status # filterStatus}
    ELSE Values(cache)

\* The body of getOrders (199-205) on the cache
GetOrdersOf(cache, filterStatus) ==
    IF filterStatus # Null
    THEN {order \in Values(cache) : order.status = filterStatus}
    ELSE Values(cache)

\* getOrders(filterStatus) (196-210), called by a consumer
GetOrders(filterStatus) ==
    /\ lastCall' = [op |-> "getOrders", args |-> <<filterStatus>>,
                    result |-> GetOrdersOf(orderCache, filterStatus),
                    threw |-> FALSE]
    /\ UNCHANGED <<cleanup, myOrders, ledger, nextOrderId, isInitialized, reconnectAttempts,
                   orderCache, subscribers, provider, provs, procs, lastPublish>>

\* removeOrder(orderId) (258-260), called by a consumer
RemoveOrder(orderId) ==
    /\ orderCache' = MapDeleteKey(orderCache, orderId)
    /\ lastCall' = [op |-> "removeOrder", args |-> <<orderId>>, result |-> <<>>,
                    threw |-> FALSE]
    /\ myOrders' = Forgotten(myOrders, DOMAIN orderCache \ DOMAIN orderCache')
    /\ UNCHANGED <<cleanup, ledger, nextOrderId, isInitialized, reconnectAttempts,
                   subscribers, provider, provs, procs, lastPublish>>

\* The body of removeOrders (262-275) for an array orderIds: the cache and the
\* publication after it, and whether it threw.
RemoveOrdersOf(orderIds, throwers) ==
    LET c == DeleteEach(orderCache, orderIds)
        r == NotifySubscribers("ordersUpdated", throwers)
    IN  [cache |-> c,
         pub   |-> Published("ordersUpdated", r, GetOrdersOf(c, Null), 1),
         threw |-> r.escaped]

\* removeOrders(orderIds) (262-275), called by a consumer
RemoveOrders(orderIds, throwers) ==
    /\ LET o == RemoveOrdersOf(orderIds, throwers)
       IN  /\ orderCache' = o.cache
           /\ lastPublish' = o.pub
           /\ lastCall' = [op |-> "removeOrders", args |-> <<orderIds>>,
                           result |-> <<>>, threw |-> o.threw]
           /\ myOrders' = Notified(Forgotten(myOrders, DOMAIN orderCache \ DOMAIN o.cache),
                                   o.pub)
    /\ UNCHANGED <<cleanup, ledger, nextOrderId, isInitialized, reconnectAttempts,
                   subscribers, provider, provs, procs>>

\* What a consumer may pass to removeOrders that is no array: one id, as a
\* number or a string, or undefined.
NonArrays == Keys \cup {[type |-> "undefined", val |-> 0]}

\* A faulty variant of RemoveOrdersOfNonArray: the argument is taken for the
\* one id to remove.
RemoveOrdersOfOneId(arg, throwers) == RemoveOrdersOf(<<arg>>, throwers)

\* The body of removeOrders for an argument that is no array (263-266): the
\* warning and the return.
RemoveOrdersOfNonArray(arg, throwers) ==
    [cache |-> orderCache, pub |-> lastPublish, threw |-> FALSE]

\* removeOrders(arg) (262-275), called by a consumer with no array
RemoveOrdersNonArray(arg, throwers) ==
    /\ LET o == RemoveOrdersOfNonArray(arg, throwers)
       IN  /\ orderCache' = o.cache
           /\ lastPublish' = o.pub
           /\ lastCall' = [op |-> "removeOrders", args |-> <<arg>>,
                           result |-> <<>>, threw |-> o.threw]
    /\ UNCHANGED <<cleanup, myOrders, ledger, nextOrderId, isInitialized, reconnectAttempts,
                   subscribers, provider, provs, procs>>

\* A faulty variant of OnUndecodable: no try/catch in the handler.
OnUndecodableUncaught(cache) == [cache |-> cache, notified |-> FALSE, threw |-> TRUE]

\* The OrderCreated handler (80-112) on arguments it cannot decode: orderId
\* or timestamp has no toNumber (86, 93), which throws before the cache is
\* written (101), and the catch of 109-111 ends the handler.
OnUndecodable(cache) == [cache |-> cache, notified |-> FALSE, threw |-> FALSE]

\* Provider c hands the OrderCreated handler arguments it cannot decode;
\* lastCall records the handler's run and whether it threw to the provider.
DeliverUndecodable(c, throwers) ==
    /\ provs[c].state = "open" /\ provs[c].orders > 0
    /\ LET o == OnUndecodable(orderCache)
       IN  /\ orderCache' = o.cache
           /\ lastPublish' = IF o.notified
                             THEN Published("OrderCreated",
                                            NotifySubscribers("OrderCreated", throwers),
                                            Undefined, 1)
                             ELSE lastPublish
           /\ lastCall' = [op |-> "OrderCreated", args |-> <<c>>,
                           result |-> <<>>, threw |-> o.threw]
    /\ UNCHANGED <<cleanup, myOrders, ledger, nextOrderId, isInitialized, reconnectAttempts,
                   subscribers, provider, provs, procs>>

RECURSIVE Ascending(_)
\* The members of a set of ids as an array, in ascending order
Ascending(S) ==
    IF S = {} THEN <<>>
    ELSE LET m == CHOOSE x \in S : \A y \in S : x <= y
         IN  <<m>> \o Ascending(S \ {m})

\* receipt.events.filter(OrderCleanedUp).map(event =>
\* event.args.orderId.toString()) (Cleanup.js 343-352), the receipt naming the
\* orders S
CleanedOrderIds(S) == [n \in DOMAIN Ascending(S) |-> StrKey(Ascending(S)[n])]

\* A faulty variant of CleanedAny: the test of line 356 is missing.
CleanedAnyway(orderIds) == TRUE

\* cleanedOrderIds?.length (Cleanup.js 356)
CleanedAny(orderIds) == Len(orderIds) > 0

\* Cleanup.performCleanup from the receipt of its transaction to its await of
\* syncAllOrders (Cleanup.js 343-361): the receipt names the orders S, which
\* the ledger has deleted. The component has waited for the service to be
\* initialized, and its button starts one cleanup at a time.
CleanupConfirmed(p, S, throwers) ==
    /\ isInitialized
    /\ \A q \in Procs : procs[q].pc \in FreePcs
    /\ NewProc(p)
    /\ S \subseteq {i \in Ids : i < nextOrderId /\ ledger[i].maker = AddressZero}
    /\ IF CleanedAny(CleanedOrderIds(S))
       THEN /\ LET o == RemoveOrdersOf(CleanedOrderIds(S), throwers)
               IN  /\ orderCache' = o.cache
                   /\ lastPublish' = o.pub
                   /\ lastCall' = [op |-> "removeOrders",
                                   args |-> <<CleanedOrderIds(S)>>,
                                   result |-> <<>>, threw |-> o.threw]
                   /\ myOrders' = Notified(Forgotten(myOrders,
                                                     DOMAIN orderCache \ DOMAIN o.cache),
                                           o.pub)
            /\ procs' = [procs EXCEPT ![p] = [IdleProc EXCEPT !.pc = "next148",
                                                              !.kind = "sync"]]
       ELSE UNCHANGED <<orderCache, lastPublish, lastCall, procs, myOrders>>
    /\ UNCHANGED <<ledger, nextOrderId, isInitialized, reconnectAttempts,
                   subscribers, provider, provs>>
    /\ cleanup' = [cleanup EXCEPT !.receipt = [status |-> 1, cleaned |-> S]]

\* performCleanup from `await tx.wait()` (335) for a transaction that failed:
\* tx.wait() rejects, or the receipt has status 0 and line 340 throws; the
\* catch of lines 367-375 reports it. The component has waited for the
\* service, and its button starts one cleanup at a time.
CleanupFailed ==
    /\ isInitialized
    /\ \A q \in Procs : procs[q].pc \in FreePcs
    /\ cleanup' = [cleanup EXCEPT !.receipt = [status |-> 0, cleaned |-> {}]]
    /\ UNCHANGED <<myOrders, ledger, nextOrderId, isInitialized, reconnectAttempts,
                   orderCache, subscribers, provider, provs, procs, lastPublish,
                   lastCall>>

\* ------------------------------------------------- Cleanup.initialize
\* The events setupWebSocket subscribes to (Cleanup.js 250-268), in its order
CleanupEvents == <<"OrderCleaned", "OrderCanceled", "OrderFilled", "orderSyncComplete">>

\* The arrow function that call n of initialize() passes to subscribe for
\* eventName: every run of setupWebSocket makes new ones.
CleanupCallback(eventName, n) == "Cleanup." \o eventName \o "#" \o ToString(n)

RECURSIVE SetupWebSocket(_, _, _)
\* setupWebSocket (Cleanup.js 243-269) of call n with subscribe's body
\* (226-231), on the registry subs
SetupWebSocket(subs, events, n) ==
    IF events = <<>> THEN subs
    ELSE LET ev == Head(events)
             withSet == IF ev \notin DOMAIN subs THEN MapSet(subs, ev, <<>>) ELSE subs
         IN  SetupWebSocket([withSet EXCEPT ![ev] = SetAdd(@, CleanupCallback(ev, n))],
                            Tail(events), n)

\* A faulty variant of ServiceAndContractReady: the contract is not tested.
ServiceReadyNoContract(ws, flag, c) == ws /\ flag

\* webSocket?.isInitialized && webSocket?.contract (Cleanup.js 22, 26, 37):
\* ws = the reference is set, flag and c = the service's isInitialized and
\* contract
ServiceAndContractReady(ws, flag, c) == ws /\ flag /\ c

\* Lines 37-43 of call n, this.webSocket being ws: the test that throws into
\* the catch of lines 105-109, else setupWebSocket.
Verified(ws, n) ==
    IF ServiceAndContractReady(ws, isInitialized, cleanup.contract)
    THEN [pc |-> "ready", webSocket |-> ws,
          subs |-> SetupWebSocket(subscribers, CleanupEvents, n)]
    ELSE [pc |-> "failed", webSocket |-> ws, subs |-> subscribers]

\* The wait loop of call n from its test (25) with attempts = a to its await
\* (31), or through its end to lines 37-43: the loop reads window.webSocket
\* and, finding it ready, assigns it to this.webSocket.
WaitLoop(ws, a, n) ==
    IF a < MaxAttempts
    THEN IF ServiceAndContractReady(TRUE, isInitialized, cleanup.contract)
         THEN Verified(TRUE, n)
         ELSE [pc |-> "polling", webSocket |-> ws, subs |-> subscribers]
    ELSE Verified(ws, n)

\* new Cleanup() (6-15): this.webSocket = window.webSocket, which is the
\* service (ws) or, the page not having made the service yet, undefined.
CleanupConstruct(ws) ==
    /\ cleanup.pc = "none"
    /\ ~ws => (~isInitialized /\ \A p \in Procs : procs[p].pc = "idle")
    /\ cleanup' = [cleanup EXCEPT !.pc = "idle", !.webSocket = ws]
    /\ UNCHANGED <<myOrders, ledger, nextOrderId, isInitialized, reconnectAttempts,
                   orderCache, subscribers, provider, provs, procs, lastPublish,
                   lastCall>>

\* The service assigns its field `contract`.
ContractAssigned ==
    /\ ~cleanup.contract
    /\ cleanup' = [cleanup EXCEPT !.contract = TRUE]
    /\ UNCHANGED <<myOrders, ledger, nextOrderId, isInitialized, reconnectAttempts,
                   orderCache, subscribers, provider, provs, procs, lastPublish,
                   lastCall>>

\* Cleanup.initialize() is called (17-43), no call of it running: to its
\* first await in the wait loop, or to setupWebSocket or the catch.
CleanupInitialize ==
    /\ cleanup.pc \in {"idle", "ready", "failed"}
    /\ cleanup.calls < MaxCleanupCalls
    /\ LET n == cleanup.calls + 1
           o == IF ServiceAndContractReady(cleanup.webSocket, isInitialized,
                                           cleanup.contract)
                THEN Verified(cleanup.webSocket, n)
                ELSE WaitLoop(cleanup.webSocket, 0, n)
       IN  /\ cleanup' = [cleanup EXCEPT !.pc = o.pc, !.webSocket = o.webSocket,
                                         !.attempts = 0, !.calls = n]
           /\ subscribers' = o.subs
    /\ UNCHANGED <<myOrders, ledger, nextOrderId, isInitialized, reconnectAttempts,
                   orderCache, provider, provs, procs, lastPublish, lastCall>>

\* The timeout of line 31 fires: attempts++ (32) and the loop goes on.
CleanupTimer ==
    /\ cleanup.pc = "polling"
    /\ LET a == cleanup.attempts + 1
           o == WaitLoop(cleanup.webSocket, a, cleanup.calls)
       IN  /\ cleanup' = [cleanup EXCEPT !.pc = o.pc, !.webSocket = o.webSocket,
                                         !.attempts = a]
           /\ subscribers' = o.subs
    /\ UNCHANGED <<myOrders, ledger, nextOrderId, isInitialized, reconnectAttempts,
                   orderCache, provider, provs, procs, lastPublish, lastCall>>

\* ------------------------------------------------------ MyOrders' steps
RECURSIVE SubscribedEach(_, _)
\* eventSubscriptions.forEach(sub => webSocket.subscribe(sub.event,
\* sub.callback)) (MyOrders.js 129-131) with subscribe's body (226-231)
SubscribedEach(subs, events) ==
    IF events = <<>> THEN subs
    ELSE LET ev == Head(events)
             withSet == IF ev \notin DOMAIN subs THEN MapSet(subs, ev, <<>>) ELSE subs
         IN  SubscribedEach([withSet EXCEPT ![ev] = SetAdd(@, MyOrdersCallback(ev))],
                            Tail(events))

\* A faulty variant of ServiceReady: the flag is not read.
ServiceReadyAlways(flag) == TRUE

\* window.webSocket?.isInitialized (MyOrders.js 29, 33), flag being the
\* service's isInitialized
ServiceReady(flag) == flag

\* MyOrders.initialize() from the end of its wait for the service (39) to its
\* `await getAccount()` (45): setupWebSocket subscribes the four callbacks.
MyOrdersSubscribes ==
    /\ subscribers' = SubscribedEach(subscribers,
                                     <<"orderSyncComplete", "OrderCreated",
                                       "OrderFilled", "OrderCanceled">>)
    /\ myOrders' = [myOrders EXCEPT !.pc = "loading",
                                    !.pending = Append(@, [kind |-> "load", refs |-> {}])]
    /\ UNCHANGED <<cleanup, ledger, nextOrderId, isInitialized, reconnectAttempts, orderCache,
                   provider, provs, procs, lastPublish, lastCall>>

\* MyOrders.initialize() is called with the service initialized: the test of
\* line 29 lets it go on without a wait.
MyOrdersInitialize ==
    /\ myOrders.pc = "idle"
    /\ ServiceReady(isInitialized)
    /\ MyOrdersSubscribes

\* MyOrders.initialize() is called with the service not initialized: it
\* starts the interval of lines 32-37 and waits (pc = polling).
MyOrdersWaits ==
    /\ myOrders.pc = "idle"
    /\ ~ServiceReady(isInitialized)
    /\ myOrders' = [myOrders EXCEPT !.pc = "polling"]
    /\ UNCHANGED <<cleanup, ledger, nextOrderId, isInitialized, reconnectAttempts, orderCache,
                   subscribers, provider, provs, procs, lastPublish, lastCall>>

\* The interval's callback runs (32-37): with the service initialized it
\* clears the interval and initialize() goes on, else nothing happens and the
\* interval stays.
MyOrdersPolls ==
    /\ myOrders.pc = "polling"
    /\ IF ServiceReady(isInitialized) THEN MyOrdersSubscribes ELSE UNCHANGED vars

\* `await window.walletManager.getAccount()` (45, 82, 101) resolves for the
\* async function that has waited longest, and that function runs to its end.
\* The awaits are taken to resolve in the order they were made.
AccountResolves ==
    /\ myOrders.pending # <<>>
    /\ myOrders' = Resumed([myOrders EXCEPT !.pending = Tail(@)],
                           Head(myOrders.pending),
                           {Reference(o) : o \in GetOrdersOf(orderCache, Null)})
    /\ UNCHANGED <<cleanup, ledger, nextOrderId, isInitialized, reconnectAttempts, orderCache,
                   subscribers, provider, provs, procs, lastPublish, lastCall>>

\* `await window.walletManager.getAccount()` rejects for the async function
\* that has waited longest: a callback's promise rejects with nobody holding
\* it; initialize's catch (71-74) rethrows.
AccountRejects ==
    /\ myOrders.pending # <<>>
    /\ myOrders' = [myOrders EXCEPT !.pending = Tail(@),
                                    !.pc = IF Head(myOrders.pending).kind = "load"
                                           THEN "failed" ELSE @]
    /\ lastCall' = [op |-> "getAccount", args |-> <<>>, result |-> <<>>,
                    threw |-> TRUE]
    /\ UNCHANGED <<cleanup, ledger, nextOrderId, isInitialized, reconnectAttempts, orderCache,
                   subscribers, provider, provs, procs, lastPublish>>

\* ------------------------------------------------ cleanup eligibility
\* this.contractAddress and this.contractABI (337-338): the constructor (5-19)
\* defines no such fields and no line of the class assigns them.
ContractAddressField == Undefined
ContractABIField == Undefined
\* const totalExpiry = 14 * 24 * 60 * 60 (345)
TotalExpiry == 1209600
\* order.timestamp and Math.floor(Date.now() / 1000), in seconds
Timestamps == {0, 1}
Nows == {TotalExpiry, TotalExpiry + 1, TotalExpiry + 2}

\* new ethers.Contract(address, abi, provider) (336-340) throws: ethers 5
\* (otctest/index.html: ethers@5.7.2) makes an Interface of abi, whose
\* constructor calls abi.map, a TypeError on undefined.
NewContractThrows(address, abi) == abi = Undefined

\* The record that `await contract.orders(orderId)` resolves to (342)
FetchedOrder(orderId, timestamp) ==
    [maker |-> ledger[orderId].maker, status |-> ledger[orderId].status,
     timestamp |-> timestamp]

\* The body of checkCleanupEligibility (335-363): what it returns, the fetch
\* resolving (ok) to a record with the given timestamp or rejecting, at the
\* time now. order = Undefined: the returned object has no such property.
CheckCleanupEligibilityOf(orderId, ok, timestamp, now) ==
    IF NewContractThrows(ContractAddressField, ContractABIField) \/ ~ok
    THEN [isEligible |-> FALSE, order |-> Undefined, error |-> TRUE]
    ELSE [isEligible |-> (now - timestamp) > TotalExpiry,
          order |-> FetchedOrder(orderId, timestamp), error |-> FALSE]

\* checkCleanupEligibility(orderId) (334-364), from the call to the return.
\* lastCall holds, after the id, what the environment gave the call: the
\* outcome of the fetch, the record's timestamp and the time.
CheckCleanupEligibility(orderId, ok, timestamp, now) ==
    /\ lastCall' = [op |-> "checkCleanupEligibility",
                    args |-> <<orderId, ok, timestamp, now>>,
                    result |-> CheckCleanupEligibilityOf(orderId, ok, timestamp, now),
                    threw |-> FALSE]
    /\ UNCHANGED <<cleanup, myOrders, ledger, nextOrderId, isInitialized, reconnectAttempts,
                   orderCache, subscribers, provider, provs, procs, lastPublish>>

\* ------------------------------------------- the transport's other signals
\* What the handlers of the provider's signals may touch of the service
Service == [isInitialized |-> isInitialized, reconnectAttempts |-> reconnectAttempts,
            orderCache |-> orderCache, subscribers |-> subscribers]

\* A faulty variant of OnBlock: the handler counts a reconnect attempt, as the
\* disconnect handler's reconnect() does.
OnBlockAsDisconnect(svc) ==
    [svc EXCEPT !.reconnectAttempts = Reconnect(@).attempts]

\* this.provider.on("block", ...) (76-78): the service after the handler
OnBlock(svc) == svc

\* this.provider.on("connect", ...) (62-64): the service after the handler
OnConnect(svc) == svc

\* Provider c emits the signal `name` (block or connect) to the handlers that
\* setupEventListeners registered on it; lastCall records the signal handled.
Signal(c, name, svc) ==
    /\ provs[c].state = "open" /\ provs[c].disc > 0
    /\ isInitialized' = svc.isInitialized
    /\ reconnectAttempts' = svc.reconnectAttempts
    /\ orderCache' = svc.orderCache
    /\ subscribers' = svc.subscribers
    /\ lastCall' = [op |-> name, args |-> <<c>>, result |-> <<>>, threw |-> FALSE]
    /\ UNCHANGED <<cleanup, myOrders, ledger, nextOrderId, provider, provs, procs, lastPublish>>

BlockSignal(c) == Signal(c, "block", OnBlock(Service))

ConnectSignal(c) == Signal(c, "connect", OnConnect(Service))

Next ==
    \/ \E p \in Procs : CallInitialize(p)
    \/ \E p \in Procs : ProviderReady(p)
    \/ \E p \in Procs : ProviderFails(p)
    \/ \E p \in Procs : TimerFires(p)
    \/ \E p \in Procs, ok \in BOOLEAN, t \in Throwers("orderSyncComplete") :
          NextOrderIdSettles(p, ok, t)
    \/ \E p \in Procs, ok \in BOOLEAN, t \in Throwers("orderSyncComplete") :
          OrderSettles(p, ok, t)
    \/ \E m \in Makers : LedgerCreate(m)
    \/ \E i \in Ids : LedgerFill(i)
    \/ \E i \in Ids : LedgerCancel(i)
    \/ \E i \in Ids : LedgerCleanup(i)
    \/ \E c \in {x \in Procs : provs[x].feed # <<>>} :
          \E t \in Throwers(Head(provs[c].feed).kind) : Deliver(c, t)
    \/ \E c \in Procs : Disconnect(c)

Spec == Init /\ [][Next]_vars

\* The consumers' side: one call of initialize() at a time over a connection
\* that holds, the ledger creating, filling and cancelling orders, and the
\* consumers subscribing callbacks, any of which may throw.
CallInitializeAlone(p) ==
    /\ \A q \in Procs : procs[q].pc \in FreePcs
    /\ CallInitialize(p)

NextPub ==
    \/ \E p \in Procs : CallInitializeAlone(p)
    \/ \E p \in Procs : ProviderReady(p)
    \/ \E p \in Procs, ok \in BOOLEAN, t \in Throwers("orderSyncComplete") :
          NextOrderIdSettles(p, ok, t)
    \/ \E p \in Procs, ok \in BOOLEAN, t \in Throwers("orderSyncComplete") :
          OrderSettles(p, ok, t)
    \/ \E m \in Makers : LedgerCreate(m)
    \/ \E i \in Ids : LedgerFill(i)
    \/ \E i \in Ids : LedgerCancel(i)
    \/ \E c \in {x \in Procs : provs[x].feed # <<>>} :
          \E t \in Throwers(Head(provs[c].feed).kind) : Deliver(c, t)
    \/ \E e \in EventNames, cb \in Callbacks : Subscribe(e, cb)

SpecPub == Init /\ [][NextPub]_vars

\* The registry alone: consumers subscribing and unsubscribing callbacks, and
\* removeOrders publishing ordersUpdated to those registered for it.
NextReg ==
    \/ \E e \in EventNames, cb \in Callbacks : Subscribe(e, cb)
    \/ \E e \in EventNames, cb \in Callbacks : Unsubscribe(e, cb)
    \/ \E t \in Throwers("ordersUpdated") : RemoveOrders(<<>>, t)

SpecReg == Init /\ [][NextReg]_vars

\* The views' side: one call of initialize() over a connection that holds, the
\* ledger at work, and the consumers querying the cache and removing orders
\* from it.
NextView ==
    \/ \E p \in Procs : CallInitializeAlone(p)
    \/ \E p \in Procs : ProviderReady(p)
    \/ \E p \in Procs, ok \in BOOLEAN, t \in Throwers("orderSyncComplete") :
          NextOrderIdSettles(p, ok, t)
    \/ \E p \in Procs, ok \in BOOLEAN, t \in Throwers("orderSyncComplete") :
          OrderSettles(p, ok, t)
    \/ \E m \in Makers : LedgerCreate(m)
    \/ \E i \in Ids : LedgerFill(i)
    \/ \E i \in Ids : LedgerCancel(i)
    \/ \E c \in {x \in Procs : provs[x].feed # <<>>} :
          \E t \in Throwers(Head(provs[c].feed).kind) : Deliver(c, t)
    \/ \E f \in Filters : GetOrders(f)
    \/ \E k \in Keys : RemoveOrder(k)
    \/ \E ks \in KeyLists, t \in Throwers("ordersUpdated") : RemoveOrders(ks, t)

SpecView == Init /\ [][NextView]_vars

\* The bootstrap alone: one call of initialize() over a connection that holds,
\* any fetch of which may fail, and the ledger at work, deleting orders too.
\* The event handlers are registered when syncAllOrders has ended, so no event
\* is handled during it.
NextBoot ==
    \/ \E p \in Procs : CallInitializeAlone(p)
    \/ \E p \in Procs : ProviderReady(p)
    \/ \E p \in Procs, ok \in BOOLEAN, t \in Throwers("orderSyncComplete") :
          NextOrderIdSettles(p, ok, t)
    \/ \E p \in Procs, ok \in BOOLEAN, t \in Throwers("orderSyncComplete") :
          OrderSettles(p, ok, t)
    \/ \E m \in Makers : LedgerCreate(m)
    \/ \E i \in Ids : LedgerFill(i)
    \/ \E i \in Ids : LedgerCancel(i)
    \/ \E i \in Ids : LedgerCleanup(i)
    \/ \E c \in {x \in Procs : provs[x].feed # <<>>} :
          \E t \in Throwers(Head(provs[c].feed).kind) : Deliver(c, t)

SpecBoot == Init /\ [][NextBoot]_vars

\* Resynchronization: as the bootstrap alone, with syncAllOrders called from
\* outside as well, one call at a time.
CallSyncAllOrdersAlone(p, hasContract, throwers) ==
    /\ \A q \in Procs : procs[q].pc \in FreePcs
    /\ CallSyncAllOrders(p, hasContract, throwers)

NextSync ==
    \/ \E p \in Procs : CallInitializeAlone(p)
    \/ \E p \in Procs : ProviderReady(p)
    \/ \E p \in Procs, ok \in BOOLEAN, t \in Throwers("orderSyncComplete") :
          NextOrderIdSettles(p, ok, t)
    \/ \E p \in Procs, ok \in BOOLEAN, t \in Throwers("orderSyncComplete") :
          OrderSettles(p, ok, t)
    \/ \E m \in Makers : LedgerCreate(m)
    \/ \E i \in Ids : LedgerFill(i)
    \/ \E i \in Ids : LedgerCancel(i)
    \/ \E i \in Ids : LedgerCleanup(i)
    \/ \E c \in {x \in Procs : provs[x].feed # <<>>} :
          \E t \in Throwers(Head(provs[c].feed).kind) : Deliver(c, t)
    \/ \E p \in Procs, h \in BOOLEAN, t \in Throwers("orderSyncComplete") :
          CallSyncAllOrdersAlone(p, h, t)

SpecSync == Init /\ [][NextSync]_vars

\* The slot holds the record of a call of syncAllOrders from outside.
IsResync(proc) == proc.kind = "sync"
\* No call of syncAllOrders from outside so far
Quiet == \A q \in Procs : ~IsResync(procs[q])

\* syncAllOrders(contract) is called from outside with the service's contract,
\* no other call running. The record of an earlier such call is kept: the call
\* takes the first slot that holds none.
Resync(p, throwers) ==
    /\ \A q \in Procs : procs[q].pc \in FreePcs
    /\ ~IsResync(procs[p]) /\ \A q \in Procs : q < p => IsResync(procs[q])
    /\ SyncAllOrders(p, TRUE, throwers)

\* A consumer calls removeOrder between two calls of syncAllOrders.
RemoveOrderBetween(orderId) ==
    /\ \A q \in Procs : procs[q].pc \in FreePcs
    /\ RemoveOrder(orderId)

\* Calls of initialize() from outside, one at a time and each started with the
\* counter at 0, on a connection that is never lost once made: every
\* connection attempt resolves or fails, every timer fires and every query of
\* the contract settles.
NextRetry ==
    \/ \E p \in Procs : reconnectAttempts = 0 /\ CallInitializeAlone(p)
    \/ \E p \in Procs : ProviderReady(p)
    \/ \E p \in Procs : ProviderFails(p)
    \/ \E p \in Procs : TimerFires(p)
    \/ \E p \in Procs, ok \in BOOLEAN : NextOrderIdSettles(p, ok, {})
    \/ \E p \in Procs, ok \in BOOLEAN : OrderSettles(p, ok, {})
    \/ \E m \in Makers : LedgerCreate(m)
    \/ \E i \in Ids : LedgerFill(i)
    \/ \E c \in Procs : Deliver(c, {})

FairRetry ==
    \A p \in Procs :
        /\ WF_vars(ProviderReady(p) \/ ProviderFails(p))
        /\ WF_vars(TimerFires(p))
        /\ WF_vars(\E ok \in BOOLEAN : NextOrderIdSettles(p, ok, {}))
        /\ WF_vars(\E ok \in BOOLEAN : OrderSettles(p, ok, {}))

SpecRetry == Init /\ [][NextRetry]_vars /\ FairRetry

\* The retries are exhausted: the counter is at its maximum and the service is
\* not initialized.
Exhausted == reconnectAttempts >= MaxReconnectAttempts /\ ~isInitialized

\* initialize() is called from outside after a call has returned false with
\* the retries exhausted, no call running. The record of the calls that have
\* returned is kept: the call takes the first slot that has held none.
CallInitializeAgain(p) ==
    /\ Exhausted
    /\ \A q \in Procs : procs[q].pc \in FreePcs
    /\ \E q \in Procs : procs[q].pc = "ret215"
    /\ procs[p].pc = "idle" /\ \A q \in Procs : q < p => procs[q].pc # "idle"
    /\ Initialize(p, "init")
    /\ UNCHANGED <<cleanup, myOrders, ledger, nextOrderId, isInitialized, reconnectAttempts,
                   orderCache, subscribers, lastPublish, lastCall>>

\* A first call of initialize() with its retries, and further calls from
\* outside once the retries are exhausted.
NextAgain ==
    \/ \E p \in Procs : reconnectAttempts = 0 /\ CallInitializeAlone(p)
    \/ \E p \in Procs : CallInitializeAgain(p)
    \/ \E p \in Procs : ProviderReady(p)
    \/ \E p \in Procs : ProviderFails(p)
    \/ \E p \in Procs : TimerFires(p)
    \/ \E p \in Procs, ok \in BOOLEAN : NextOrderIdSettles(p, ok, {})
    \/ \E p \in Procs, ok \in BOOLEAN : OrderSettles(p, ok, {})
    \/ \E m \in Makers : LedgerCreate(m)
    \/ \E i \in Ids : LedgerFill(i)
    \/ \E c \in Procs : Deliver(c, {})

SpecAgain == Init /\ [][NextAgain]_vars

\* MyOrders.initialize() called at any time while the service makes its first
\* call of initialize() with its retries: the interval's callback keeps
\* running, getAccount() resolves, and the service's awaits settle.
NextPolling ==
    \/ \E p \in Procs : reconnectAttempts = 0 /\ CallInitializeAlone(p)
    \/ \E p \in Procs : ProviderReady(p)
    \/ \E p \in Procs : ProviderFails(p)
    \/ \E p \in Procs : TimerFires(p)
    \/ \E p \in Procs, ok \in BOOLEAN : NextOrderIdSettles(p, ok, {})
    \/ \E p \in Procs, ok \in BOOLEAN : OrderSettles(p, ok, {})
    \/ \E m \in Makers : LedgerCreate(m)
    \/ \E c \in Procs : Deliver(c, {})
    \/ MyOrdersInitialize
    \/ MyOrdersWaits
    \/ MyOrdersPolls
    \/ AccountResolves

SpecPolling ==
    Init /\ [][NextPolling]_vars /\ FairRetry
         /\ WF_vars(MyOrdersPolls) /\ WF_vars(AccountResolves)

\* The My Orders page over the service: one call of initialize(), the ledger's
\* activity by the user and by another maker, MyOrders.initialize(), the
\* resolutions of its awaits, calls of syncAllOrders from outside and calls of
\* removeOrders by a consumer. No connection fails and no callback throws.
NextMyOrders ==
    \/ \E p \in Procs : Quiet /\ CallInitializeAlone(p)
    \/ \E p \in Procs : ProviderReady(p)
    \/ \E p \in Procs : NextOrderIdSettles(p, TRUE, {})
    \/ \E p \in Procs : OrderSettles(p, TRUE, {})
    \/ \E m \in Makers \cup {OtherMaker} : LedgerCreate(m)
    \/ \E i \in Ids : LedgerFill(i)
    \/ \E c \in Procs : Deliver(c, {})
    \/ MyOrdersInitialize
    \/ AccountResolves
    \/ \E p \in Procs : Resync(p, {})
    \/ \E i \in Ids : RemoveOrders(<<NumKey(i)>>, {})

SpecMyOrders == Init /\ [][NextMyOrders]_vars

\* The work that the publications start in MyOrders: as above without the
\* calls of removeOrders, and getAccount() may also reject.
NextDownstream ==
    \/ \E p \in Procs : Quiet /\ CallInitializeAlone(p)
    \/ \E p \in Procs : ProviderReady(p)
    \/ \E p \in Procs : NextOrderIdSettles(p, TRUE, {})
    \/ \E p \in Procs : OrderSettles(p, TRUE, {})
    \/ \E m \in Makers \cup {OtherMaker} : LedgerCreate(m)
    \/ \E i \in Ids : LedgerFill(i)
    \/ \E c \in Procs : Deliver(c, {})
    \/ MyOrdersInitialize
    \/ AccountResolves
    \/ AccountRejects
    \/ \E p \in Procs : Resync(p, {})

SpecDownstream == Init /\ [][NextDownstream]_vars

\* Repeated resynchronization of an unchanging ledger: the bootstrap, the
\* ledger's activity and the deliveries of its events come first and fill the
\* cache; from the first call of syncAllOrders on, the ledger is left alone
\* and no event is delivered, fetches may fail, and consumers may remove
\* orders from the cache between the calls.
NextResync ==
    \/ \E p \in Procs : Quiet /\ CallInitializeAlone(p)
    \/ \E p \in Procs : ProviderReady(p)
    \/ \E p \in Procs, ok \in BOOLEAN, t \in Throwers("orderSyncComplete") :
          NextOrderIdSettles(p, ok, t)
    \/ \E p \in Procs, ok \in BOOLEAN, t \in Throwers("orderSyncComplete") :
          OrderSettles(p, ok, t)
    \/ \E m \in Makers : Quiet /\ LedgerCreate(m)
    \/ \E i \in Ids : Quiet /\ LedgerFill(i)
    \/ \E i \in Ids : Quiet /\ LedgerCancel(i)
    \/ \E i \in Ids : Quiet /\ LedgerCleanup(i)
    \/ \E c \in {x \in Procs : provs[x].feed # <<>>} :
          \E t \in Throwers(Head(provs[c].feed).kind) : Quiet /\ Deliver(c, t)
    \/ \E p \in Procs, t \in Throwers("orderSyncComplete") : Resync(p, t)
    \/ \E k \in Keys : RemoveOrderBetween(k)

SpecResync == Init /\ [][NextResync]_vars

\* Cleanup: as the bootstrap alone, with the Cleanup component confirming the
\* orders that the ledger has deleted.
NextCleanup ==
    \/ \E p \in Procs : CallInitializeAlone(p)
    \/ \E p \in Procs : ProviderReady(p)
    \/ \E p \in Procs, ok \in BOOLEAN, t \in Throwers("orderSyncComplete") :
          NextOrderIdSettles(p, ok, t)
    \/ \E p \in Procs, ok \in BOOLEAN, t \in Throwers("orderSyncComplete") :
          OrderSettles(p, ok, t)
    \/ \E m \in Makers : LedgerCreate(m)
    \/ \E i \in Ids : LedgerFill(i)
    \/ \E i \in Ids : LedgerCancel(i)
    \/ \E i \in Ids : LedgerCleanup(i)
    \/ \E c \in {x \in Procs : provs[x].feed # <<>>} :
          \E t \in Throwers(Head(provs[c].feed).kind) : Deliver(c, t)
    \/ \E p \in Procs, S \in SUBSET Ids, t \in Throwers("ordersUpdated") :
          CleanupConfirmed(p, S, t)

SpecCleanup == Init /\ [][NextCleanup]_vars

\* ---------------------------------------------------------------- steps
\* The call in slot p returns in this step.
\* The signals: calls of initialize(), connections that fail or are lost,
\* reconnections, and the providers' block and connect signals.
NextSignals ==
    \/ \E p \in Procs : CallInitialize(p)
    \/ \E p \in Procs : ProviderReady(p)
    \/ \E p \in Procs : ProviderFails(p)
    \/ \E p \in Procs : TimerFires(p)
    \/ \E p \in Procs, ok \in BOOLEAN, t \in Throwers("orderSyncComplete") :
          NextOrderIdSettles(p, ok, t)
    \/ \E p \in Procs, ok \in BOOLEAN, t \in Throwers("orderSyncComplete") :
          OrderSettles(p, ok, t)
    \/ \E m \in Makers : LedgerCreate(m)
    \/ \E i \in Ids : LedgerFill(i)
    \/ \E c \in {x \in Procs : provs[x].feed # <<>>} :
          \E t \in Throwers(Head(provs[c].feed).kind) : Deliver(c, t)
    \/ \E c \in Procs : Disconnect(c)
    \/ \E c \in Procs : BlockSignal(c)
    \/ \E c \in Procs : ConnectSignal(c)

SpecSignals == Init /\ [][NextSignals]_vars

\* Reading while the cache changes: the resynchronization, with consumers
\* calling getOrders and removeOrder at any moment.
NextCopy ==
    \/ \E p \in Procs : CallInitializeAlone(p)
    \/ \E p \in Procs : ProviderReady(p)
    \/ \E p \in Procs, ok \in BOOLEAN, t \in Throwers("orderSyncComplete") :
          NextOrderIdSettles(p, ok, t)
    \/ \E p \in Procs, ok \in BOOLEAN, t \in Throwers("orderSyncComplete") :
          OrderSettles(p, ok, t)
    \/ \E m \in Makers : LedgerCreate(m)
    \/ \E i \in Ids : LedgerFill(i)
    \/ \E c \in {x \in Procs : provs[x].feed # <<>>} :
          \E t \in Throwers(Head(provs[c].feed).kind) : Deliver(c, t)
    \/ \E p \in Procs, t \in Throwers("orderSyncComplete") :
          CallSyncAllOrdersAlone(p, TRUE, t)
    \/ \E f \in Filters : GetOrders(f)
    \/ \E k \in Keys : RemoveOrder(k)

SpecCopy == Init /\ [][NextCopy]_vars

\* Cleanup eligibility: the bootstrap and the ledger as before, with
\* consumers asking for the eligibility of the ledger's orders.
NextEligibility ==
    \/ \E p \in Procs : CallInitializeAlone(p)
    \/ \E p \in Procs : ProviderReady(p)
    \/ \E p \in Procs, ok \in BOOLEAN, t \in Throwers("orderSyncComplete") :
          NextOrderIdSettles(p, ok, t)
    \/ \E p \in Procs, ok \in BOOLEAN, t \in Throwers("orderSyncComplete") :
          OrderSettles(p, ok, t)
    \/ \E m \in Makers : LedgerCreate(m)
    \/ \E i \in Ids : LedgerFill(i)
    \/ \E i \in Ids : LedgerCancel(i)
    \/ \E i \in {x \in Ids : x < nextOrderId}, ok \in BOOLEAN,
          ts \in Timestamps, now \in Nows :
          CheckCleanupEligibility(i, ok, ts, now)

SpecEligibility == Init /\ [][NextEligibility]_vars

\* Malformed input: the bootstrap, the ledger and its events, consumers
\* subscribing, removeOrders called with what is no array, and OrderCreated
\* events that cannot be decoded.
NextMalformed ==
    \/ \E p \in Procs : CallInitializeAlone(p)
    \/ \E p \in Procs : ProviderReady(p)
    \/ \E p \in Procs, ok \in BOOLEAN, t \in Throwers("orderSyncComplete") :
          NextOrderIdSettles(p, ok, t)
    \/ \E p \in Procs, ok \in BOOLEAN, t \in Throwers("orderSyncComplete") :
          OrderSettles(p, ok, t)
    \/ \E m \in Makers : LedgerCreate(m)
    \/ \E i \in Ids : LedgerFill(i)
    \/ \E c \in {x \in Procs : provs[x].feed # <<>>} :
          \E t \in Throwers(Head(provs[c].feed).kind) : Deliver(c, t)
    \/ \E e \in {"OrderCreated", "ordersUpdated"}, cb \in Callbacks : Subscribe(e, cb)
    \/ \E a \in NonArrays, t \in Throwers("ordersUpdated") : RemoveOrdersNonArray(a, t)
    \/ \E c \in Procs, t \in Throwers("OrderCreated") : DeliverUndecodable(c, t)

SpecMalformed == Init /\ [][NextMalformed]_vars

Returns(p) == procs'[p] # procs[p] /\ procs'[p].pc \in ReturnPcs
\* The call in slot p ends a syncAllOrders in this step.
EndsSync(p) == procs[p].pc \in SyncPcs /\ procs'[p].pc \notin SyncPcs
\* The call in slot p takes a step of syncAllOrders.
StepsSync(p) == /\ procs[p].pc \in SyncPcs
                /\ procs'[p].pc # procs[p].pc \/ procs'[p].idx # procs[p].idx
\* The call in slot p leaves syncAllOrders through its catch in this step.
FailsSync(p) == procs'[p] # procs[p] /\ procs'[p].pc = "ret192"
\* As FailsSync(p), the call having taken the slot of one that ended the same
\* way.
FailsSyncAgain(p) == /\ procs[p].pc = "ret192" /\ procs' = procs
                     /\ orderCache' = EmptyMap /\ UNCHANGED <<ledger, provs, lastCall>>
\* Cleanup.performCleanup, in slot p, confirms a cleanup in this step.
ConfirmsCleanup(p) == /\ procs[p].pc \in FreePcs
                      /\ procs'[p].pc = "next148" /\ procs'[p].kind = "sync"
                      /\ lastCall'.op = "removeOrders"
\* Provider c hands an event to its handler in this step.
Delivers(c) == /\ provs[c].feed # <<>>
               /\ provs'[c].state = provs[c].state
               /\ provs'[c].feed = Tail(provs[c].feed)
               /\ ledger' = ledger

\* The Cleanup component's initialize() beside the service's bootstrap, which
\* may fail and retry.
NextCleanupInit ==
    \/ \E p \in Procs : reconnectAttempts = 0 /\ CallInitializeAlone(p)
    \/ \E p \in Procs : ProviderReady(p)
    \/ \E p \in Procs : ProviderFails(p)
    \/ \E p \in Procs : TimerFires(p)
    \/ \E p \in Procs, ok \in BOOLEAN : NextOrderIdSettles(p, ok, {})
    \/ \E p \in Procs, ok \in BOOLEAN : OrderSettles(p, ok, {})
    \/ \E m \in Makers : LedgerCreate(m)
    \/ \E ws \in BOOLEAN : CleanupConstruct(ws)
    \/ ContractAssigned
    \/ CleanupInitialize
    \/ CleanupTimer

SpecCleanupInit == Init /\ [][NextCleanupInit]_vars

\* Cleanup.performCleanup with transactions that fail as well; the awaits of
\* syncAllOrders settle in the end, one way or the other.
NextPerformCleanup ==
    \/ \E p \in Procs : CallInitializeAlone(p)
    \/ \E p \in Procs : ProviderReady(p)
    \/ \E p \in Procs, ok \in BOOLEAN, t \in Throwers("orderSyncComplete") :
          NextOrderIdSettles(p, ok, t)
    \/ \E p \in Procs, ok \in BOOLEAN, t \in Throwers("orderSyncComplete") :
          OrderSettles(p, ok, t)
    \/ \E m \in Makers : LedgerCreate(m)
    \/ \E i \in Ids : LedgerFill(i)
    \/ \E i \in Ids : LedgerCancel(i)
    \/ \E i \in Ids : LedgerCleanup(i)
    \/ \E c \in {x \in Procs : provs[x].feed # <<>>} :
          \E t \in Throwers(Head(provs[c].feed).kind) : Deliver(c, t)
    \/ \E p \in Procs, S \in SUBSET Ids, t \in Throwers("ordersUpdated") :
          CleanupConfirmed(p, S, t)
    \/ CleanupFailed

FairSync ==
    \A p \in Procs :
        /\ WF_vars(\E ok \in BOOLEAN : NextOrderIdSettles(p, ok, {}))
        /\ WF_vars(\E ok \in BOOLEAN : OrderSettles(p, ok, {}))

SpecPerformCleanup == Init /\ [][NextPerformCleanup]_vars /\ FairSync

\* ---------------------------------------------------------------- claims
\* C1: a reconnect that follows a disconnect signal and succeeds has re-run the
\* bootstrap: the disconnect handler's call returns true only through line 50,
\* after syncAllOrders and setupEventListeners, never through line 23.
C1_ReconnectRerunsBootstrap ==
    \A p \in Procs :
        (procs[p].kind = "disc" /\ procs[p].pc \in {"ret23", "ret50"})
            => procs[p].pc = "ret50"

\* C2: no incremental event sets a cached status that is Filled or Canceled back
\* to Active.
C2_NoRegression ==
    [][\A c \in Procs : Delivers(c) =>
          \A k \in DOMAIN orderCache :
              (orderCache[k].status \in {"Filled", "Canceled"} /\ k \in DOMAIN orderCache')
                  => orderCache'[k].status # "Active"]_vars

\* C3: the only status changes incremental events apply to a cached order are
\* Active to Filled and Active to Canceled.
C3_MonotoneTransitions ==
    [][\A c \in Procs : Delivers(c) =>
          \A k \in DOMAIN orderCache \cap DOMAIN orderCache' :
              orderCache'[k].status # orderCache[k].status
                  => /\ orderCache[k].status = "Active"
                     /\ orderCache'[k].status \in {"Filled", "Canceled"}]_vars

\* C4: a syncAllOrders that another one has superseded neither writes the cache
\* nor publishes orderSyncComplete.
C4_StaleBootstrapSilent ==
    [][\A p \in Procs :
          (procs[p].superseded /\ StepsSync(p))
              => /\ orderCache' = orderCache
                 /\ ~EndsSync(p)]_vars

\* C5: no incremental event handler writes the cache between a syncAllOrders'
\* clear of the cache and its publication of orderSyncComplete.
C5_WritersSerialized ==
    [][\A c \in Procs :
          (Delivers(c) /\ \E p \in Procs : procs[p].pc = "orders160")
              => orderCache' = orderCache]_vars

\* C6: when orderSyncComplete is published, every cached order is Active on the
\* ledger, and every ledger order below the bound that is Active with a
\* non-zero maker and whose fetch did not fail is cached.
C6_AuthoritativeAtSyncComplete ==
    [][\A p \in Procs :
          (EndsSync(p) /\ procs'[p].pc = "ret50")
              => /\ \A k \in DOMAIN orderCache' :
                        ledger[k].maker # AddressZero /\ ledger[k].status = 0
                 /\ \A k \in Ids :
                        (/\ k < procs'[p].bound
                         /\ k \notin procs'[p].failed
                         /\ ledger[k].maker # AddressZero
                         /\ ledger[k].status = 0)
                            => k \in DOMAIN orderCache']_vars

\* C7: whenever initialize returns true, reconnectAttempts is 0.
C7_AttemptsResetOnSuccess ==
    [][\A p \in Procs :
          (Returns(p) /\ procs'[p].pc \in {"ret23", "ret50"})
              => reconnectAttempts' = 0]_vars

\* C8: the delay reconnect waits on attempt n is reconnectDelay * 2^(n-1):
\* 1000, 2000, 4000, 8000, 16000 ms for n = 1..5.
C8_BackoffGrowth ==
    \A p \in Procs :
        procs[p].pc = "timer222"
            => /\ procs[p].attempt \in 1 .. 5
               /\ procs[p].delay = <<1000, 2000, 4000, 8000, 16000>>[procs[p].attempt]

C8_Witness ==
    \E p \in Procs : procs[p].pc = "timer222" /\ procs[p].delay = 16000

\* C9: with reconnectAttempts at maxReconnectAttempts, reconnect gives up: the
\* counter is not incremented, no wait begins, no connection attempt starts, and
\* the call whose connection attempt failed returns false.
C9_GivesUpWhenExhausted ==
    [][reconnectAttempts = 5 =>
          /\ reconnectAttempts' \in {5, 0}
          /\ \A p \in Procs :
                /\ procs'[p].pc = "timer222" => procs[p].pc = "timer222"
                /\ (procs[p].pc = "ready32" /\ provs'[p].state = "failed")
                      => /\ procs'[p].pc = "ret215"
                         /\ reconnectAttempts' = 5
                         /\ provider' = provider]_vars

C9_Witness ==
    /\ reconnectAttempts = 5
    /\ \E p \in Procs : /\ procs[p].pc = "ret215" /\ procs[p].kind = "init"
                        /\ provs[p].state = "failed"

\* C10: a publication invokes every subscriber of its event, whichever of them
\* throw; nothing is thrown to the publisher; and the cache keeps what the
\* publisher put in it (the syncAllOrders that published ends normally with the
\* entries it had rebuilt).
C10_SubscriberIsolation ==
    [][/\ lastPublish' # lastPublish =>
            /\ ~lastPublish'.escaped
            /\ lastPublish'.invoked =
                  IF lastPublish'.event \in DOMAIN subscribers
                  THEN subscribers[lastPublish'.event] ELSE <<>>
       /\ \A p \in Procs : EndsSync(p) =>
            /\ procs'[p].pc = "ret50"
            /\ procs[p].pc = "orders160" =>
                  \A k \in DOMAIN orderCache \ {procs[p].idx} :
                      k \in DOMAIN orderCache' /\ orderCache'[k] = orderCache[k]]_vars

C10_Witness ==
    /\ Len(lastPublish.invoked) >= 2
    /\ lastPublish.invoked[1] \in lastPublish.threw
    /\ orderCache # EmptyMap
    /\ lastPublish.event = "orderSyncComplete"

\* A Set, as the sequence of its members, holds no member twice.
NoDuplicates(set) == Len(set) = Cardinality(Range(set))
\* A consumer's call of method op changes lastCall in this step.
Calls(op) == lastCall' # lastCall /\ lastCall'.op = op

\* C11: the registry holds a callback at most once per event name, so a
\* publication invokes it once however often it was subscribed; and an
\* unsubscribe of a callback or an event name that is not registered leaves
\* the registry as it was and throws nothing.
C11_RegistrySetSemantics ==
    [][/\ \A e \in DOMAIN subscribers' : NoDuplicates(subscribers'[e])
       /\ NoDuplicates(lastPublish'.invoked)
       /\ Calls("unsubscribe") =>
             LET e  == lastCall'.args[1]
                 cb == lastCall'.args[2]
             IN  /\ ~lastCall'.threw
                 /\ (e \notin DOMAIN subscribers \/ cb \notin Range(subscribers[e]))
                       => subscribers' = subscribers]_vars

C11_Witness ==
    /\ lastCall.op = "unsubscribe"
    /\ lastCall.args[1] \notin DOMAIN subscribers
    /\ lastPublish.event = "ordersUpdated"
    /\ lastPublish.invoked = <<"cb1">>
    /\ NSubs = 2

\* The ids, as numbers, that an array of keys names.
IdsOf(orderIds) == {orderIds[n].val : n \in DOMAIN orderIds}

\* C12: an OrderFilled or OrderCanceled event for an id that is not cached
\* leaves the cache as it was and publishes nothing; removeOrder and
\* removeOrders for ids that are not cached leave the cache as it was and throw
\* nothing.
C12_AbsentIdTolerance ==
    [][/\ \A c \in Procs :
            (/\ Delivers(c)
             /\ Head(provs[c].feed).kind \in {"OrderFilled", "OrderCanceled"}
             /\ Head(provs[c].feed).id \notin DOMAIN orderCache)
                => orderCache' = orderCache /\ lastPublish' = lastPublish
       /\ (Calls("removeOrder") /\ lastCall'.args[1].val \notin DOMAIN orderCache)
            => orderCache' = orderCache /\ ~lastCall'.threw
       /\ (Calls("removeOrders") /\ IdsOf(lastCall'.args[1]) \cap DOMAIN orderCache = {})
            => orderCache' = orderCache /\ ~lastCall'.threw]_vars

\* Order 0 was created and published, removed from the cache and then filled,
\* its OrderFilled event handled; order 1, never created, was removed.
C12_Witness ==
    /\ lastPublish.event = "OrderCreated" /\ lastPublish.data.id = 0
    /\ ledger[0].status = 1
    /\ \A p \in Procs : provs[p].feed = <<>>
    /\ 0 \notin DOMAIN orderCache
    /\ nextOrderId = 1
    /\ lastCall.op = "removeOrder" /\ lastCall.args[1] = NumKey(1)

\* The ledger holds order k as Active with a maker.
ActiveOnLedger(k) == ledger[k].maker # AddressZero /\ ledger[k].status = 0

\* C13: when a bootstrap with bound B, during which no event was handled, ends,
\* every cached id is below B, its fetch did not fail and its record is the
\* fetched one, Active with a non-zero maker; every id below B whose fetch did
\* not fail and that the ledger holds as Active with a maker is cached (an
\* order that is Active at the end was Active when it was fetched); failed
\* fetches do not stop initialize returning true; and the orderSyncComplete
\* payload has exactly the cache's entries.
C13_BootstrapContent ==
    [][\A p \in Procs : EndsSync(p) =>
          /\ procs'[p].pc = "ret50"
          /\ \A k \in DOMAIN orderCache' :
                /\ k < procs'[p].bound /\ k \notin procs'[p].failed
                /\ orderCache'[k].id = k
                /\ orderCache'[k].status = "Active"
                /\ orderCache'[k].maker \in Makers
          /\ \A k \in Ids :
                (k < procs'[p].bound /\ k \notin procs'[p].failed /\ ActiveOnLedger(k))
                    => k \in DOMAIN orderCache'
          /\ lastPublish'.event = "orderSyncComplete"
          /\ DOMAIN lastPublish'.data = {StrKey(k) : k \in DOMAIN orderCache'}
          /\ \A k \in DOMAIN orderCache' :
                lastPublish'.data[StrKey(k)] = orderCache'[k]]_vars

\* A bootstrap with bound 2 has ended: the fetch of id 0 failed, id 1 alone is
\* cached and published.
C13_Witness ==
    \E p \in Procs :
        /\ procs[p].pc = "ret50" /\ procs[p].bound = 2 /\ procs[p].failed = {0}
        /\ ActiveOnLedger(0)
        /\ DOMAIN orderCache = {1}
        /\ lastPublish.event = "orderSyncComplete"
        /\ DOMAIN lastPublish.data = {StrKey(1)}

\* C14: when the query of the bound throws, syncAllOrders goes on with bound 0:
\* it fetches no order, leaves the cache empty and publishes orderSyncComplete
\* with an empty snapshot, and initialize returns true.
C14_BoundQueryFailure ==
    [][\A p \in Procs :
          (procs[p].pc = "next148" /\ procs'[p].pc # "next148" /\ ~procs'[p].boundOk)
              => /\ procs'[p].bound = 0
                 /\ procs'[p].pc = "ret50"
                 /\ isInitialized'
                 /\ orderCache' = EmptyMap
                 /\ lastPublish'.event = "orderSyncComplete"
                 /\ lastPublish'.calls = 1
                 /\ lastPublish'.data = EmptyMap]_vars

\* initialize has returned true after a failed query of the bound, the ledger
\* holding an Active order that no event has announced since.
C14_Witness ==
    \E p \in Procs :
        /\ procs[p].pc = "ret50" /\ ~procs[p].boundOk
        /\ ActiveOnLedger(0)
        /\ \A c \in Procs : provs[c].feed = <<>>
        /\ orderCache = EmptyMap
        /\ lastPublish.event = "orderSyncComplete" /\ lastPublish.data = EmptyMap

\* C15: a call of syncAllOrders publishes orderSyncComplete once, in the step
\* that ends it and in no other, and the payload has the entries the cache has
\* at that moment: on the path through the catch the cache is empty and so is
\* the payload.
C15_PublishesOncePerSync ==
    [][/\ \A p \in Procs : (EndsSync(p) \/ FailsSync(p)) =>
             /\ lastPublish'.event = "orderSyncComplete"
             /\ lastPublish'.calls = 1
             /\ DOMAIN lastPublish'.data = {StrKey(k) : k \in DOMAIN orderCache'}
             /\ \A k \in DOMAIN orderCache' :
                   lastPublish'.data[StrKey(k)] = orderCache'[k]
             /\ FailsSync(p) => orderCache' = EmptyMap
       /\ (lastPublish' # lastPublish /\ lastPublish'.event = "orderSyncComplete")
             => \E p \in Procs : EndsSync(p) \/ FailsSync(p) \/ FailsSyncAgain(p)]_vars

\* A call of syncAllOrders has ended through its catch, emptying a cache that
\* held the ledger's Active order 0, and published the empty snapshot.
C15_Witness ==
    \E p \in Procs :
        /\ procs[p].pc = "ret192"
        /\ isInitialized /\ ActiveOnLedger(0)
        /\ \A c \in Procs : provs[c].feed = <<>>
        /\ orderCache = EmptyMap
        /\ lastPublish.event = "orderSyncComplete" /\ lastPublish.data = EmptyMap

\* C16: when Cleanup.performCleanup has handled a receipt, the cache holds none
\* of the ids the receipt names, whether they were cached or not; the
\* ordersUpdated publication carries exactly the orders left in the cache, none
\* of them a confirmed one; and nothing was thrown.
C16_CleanupConfirmation ==
    [][\A p \in Procs : ConfirmsCleanup(p) =>
          /\ IdsOf(lastCall'.args[1]) \cap DOMAIN orderCache' = {}
          /\ lastPublish'.event = "ordersUpdated"
          /\ lastPublish'.data = Values(orderCache')
          /\ \A order \in lastPublish'.data : order.id \notin IdsOf(lastCall'.args[1])
          /\ ~lastCall'.threw]_vars

\* The callbacks registered for eventName, in the order a publication invokes
\* them.
Subscribed(eventName) ==
    IF eventName \in DOMAIN subscribers THEN subscribers[eventName] ELSE <<>>

\* C17: the OrderCreated handler caches the new order as Active and publishes
\* that record; the OrderFilled handler, for an order so cached, leaves it
\* cached as Filled and publishes OrderFilled once, invoking every subscriber
\* once with the updated record.
C17_CreatedThenFilled ==
    [][\A c \in Procs : Delivers(c) =>
          LET e == Head(provs[c].feed)
          IN  /\ e.kind = "OrderCreated" =>
                    /\ e.id \in DOMAIN orderCache'
                    /\ orderCache'[e.id] = [id |-> e.id, maker |-> e.maker,
                                            status |-> "Active"]
                    /\ lastPublish'.event = "OrderCreated"
                    /\ lastPublish'.data = orderCache'[e.id]
              /\ (e.kind = "OrderFilled" /\ e.id \in DOMAIN orderCache) =>
                    /\ e.id \in DOMAIN orderCache'
                    /\ orderCache'[e.id] = [orderCache[e.id] EXCEPT !.status = "Filled"]
                    /\ lastPublish'.event = "OrderFilled"
                    /\ lastPublish'.calls = 1
                    /\ lastPublish'.invoked = Subscribed("OrderFilled")
                    /\ NoDuplicates(lastPublish'.invoked)
                    /\ lastPublish'.data = orderCache'[e.id]
                    /\ lastPublish'.data.status = "Filled"]_vars

\* Order 0, which the bootstrap (bound 0) did not fetch, was created and then
\* filled: it is cached as Filled and two subscribers received the record.
C17_Witness ==
    /\ \E p \in Procs : procs[p].pc = "ret50" /\ procs[p].bound = 0
    /\ 0 \in DOMAIN orderCache /\ orderCache[0].status = "Filled"
    /\ lastPublish.event = "OrderFilled"
    /\ Len(lastPublish.invoked) = 2
    /\ lastPublish.data = orderCache[0]

\* C18: isInitialized is false after construction; it becomes true only in the
\* step in which a call of initialize ends its bootstrap, orderSyncComplete
\* published and the handlers registered on its open provider; it is true
\* after every such step, and it stays true.
C18_ReadyFlag ==
    /\ ~isInitialized
    /\ [][/\ (~isInitialized /\ isInitialized') =>
                \E p \in Procs :
                    /\ EndsSync(p) /\ procs'[p].pc = "ret50"
                    /\ lastPublish'.event = "orderSyncComplete"
                    /\ LET c == procs[p].contract
                       IN  provs[c].state = "open"
                              => provs'[c].orders = provs[c].orders + 1
          /\ \A p \in Procs : (EndsSync(p) /\ procs'[p].pc = "ret50") => isInitialized'
          /\ isInitialized => isInitialized']_vars

\* The first bootstrap has ended and the flag is set; before, a connection
\* attempt had failed, which left the flag false.
C18_Witness ==
    /\ isInitialized
    /\ lastPublish.event = "orderSyncComplete"
    /\ \E p \in Procs : /\ procs[p].pc = "ret50" /\ provs[p].orders = 1
                        /\ procs[p].kind = "init"
    /\ \E q \in Procs : procs[q].pc = "ret215"

\* C19: getOrders(filterStatus) with the filter 'Active', 'Filled' or
\* 'Canceled' returns exactly the cached records whose status is the filter,
\* getOrders() returns every cached record, and the cache is left as it was.
C19_FilterCorrectness ==
    [][Calls("getOrders") =>
         LET f == lastCall'.args[1]
             result == lastCall'.result
         IN /\ f \in Filters
            /\ \A order \in result : \E i \in DOMAIN orderCache : orderCache[i] = order
            /\ \A i \in DOMAIN orderCache :
                  orderCache[i] \in result <=> (f = Null \/ orderCache[i].status = f)
            /\ ~lastCall'.threw
            /\ orderCache' = orderCache]_vars

\* getOrders('Filled') has returned a record while the cache held an Active
\* one as well.
C19_Witness ==
    /\ lastCall.op = "getOrders" /\ lastCall.args = <<"Filled">>
    /\ lastCall.result # {}
    /\ \E i, j \in DOMAIN orderCache :
          /\ orderCache[i].status = "Filled" /\ orderCache[i] \in lastCall.result
          /\ orderCache[j].status = "Active" /\ orderCache[j] \notin lastCall.result

\* C20: when a call of syncAllOrders ends that met the same ledger content,
\* the same bound and the same failed fetches as the call before it (no ledger
\* event in between), the cache and the published snapshot are those the
\* call before it left, whatever the cache held before either call. (Resync
\* fills the slots in order: the call before the one in slot q is in q - 1.)
C20_ResyncIdempotence ==
    [][\A p, q \in Procs :
          (/\ p + 1 = q
           /\ IsResync(procs[p]) /\ procs[p].pc = "ret187"
           /\ EndsSync(q) /\ procs'[q] = procs[p])
          => /\ lastPublish.event = "orderSyncComplete"
             /\ lastPublish'.data = lastPublish.data
             /\ ObjectFromEntries(orderCache') = lastPublish.data]_vars

\* Two calls of syncAllOrders have ended after the same bound of two and the
\* same failed fetch, and the snapshot holds an order.
C20_Witness ==
    /\ \A p \in Procs : IsResync(procs[p]) /\ procs[p].pc = "ret187"
    /\ procs[1] = procs[2]
    /\ procs[1].bound = 2 /\ procs[1].failed = {0}
    /\ DOMAIN orderCache = {1}
    /\ lastPublish.data = ObjectFromEntries(orderCache)

\* The provider c handles a block or connect signal in this step.
Signals(c) == /\ lastCall' # lastCall /\ lastCall'.op \in {"block", "connect"}
              /\ lastCall'.args = <<c>>
\* A call of reconnect() starts in this step: the counter grows, or a call
\* comes to reconnect's wait or to its giving up.
StartsReconnect ==
    \/ reconnectAttempts' > reconnectAttempts
    \/ \E p \in Procs : /\ procs'[p] # procs[p]
                         /\ procs'[p].pc \in {"timer222", "ret215"}
\* Provider c emits "disconnect" in this step.
Disconnects(c) == provs[c].state = "open" /\ provs'[c].state = "closed"
\* The call in slot p comes to initialize's catch in this step.
InitializeFails(p) == /\ procs[p].pc \in {"ready32"} \cup SyncPcs
                      /\ procs'[p].pc \in {"timer222", "ret215"}

\* C21: a block or connect signal changes neither reconnectAttempts, the
\* cache, the registry nor isInitialized, and starts no call; a reconnect()
\* starts only with a disconnect signal or in the catch of initialize, so
\* that no lapse of time without block signals starts one.
C21_OnlyDisconnectReconnects ==
    [][/\ \A c \in Procs : Signals(c) =>
              UNCHANGED <<reconnectAttempts, orderCache, subscribers,
                          isInitialized, procs, provs, provider, lastPublish>>
       /\ StartsReconnect =>
              \/ \E c \in Procs : Disconnects(c)
              \/ \E p \in Procs : InitializeFails(p)]_vars

\* A block signal has been handled on an open provider while the counter was
\* not zero and a reconnect() was waiting.
C21_Witness ==
    /\ lastCall.op = "block"
    /\ provs[lastCall.args[1]].state = "open"
    /\ reconnectAttempts > 0
    /\ \E p \in Procs : procs[p].pc = "timer222"

\* The array that the last call of getOrders returned, as its holder reads it
\* now, and the ids of the orders in it
Returned == ArrayFrom(lastCall.result, orderCache)
ReturnedIds == {order.id : order \in Returned}

C23_CleanupEligibility ==
    [][Calls("checkCleanupEligibility") =>
         LET orderId == lastCall'.args[1]
             ok == lastCall'.args[2]
             timestamp == lastCall'.args[3]
             now == lastCall'.args[4]
             r == lastCall'.result
         IN  /\ ~lastCall'.threw
             /\ orderCache' = orderCache
             /\ IF ok
                THEN /\ r.isEligible <=> (now - timestamp > 1209600)
                     /\ ~r.error
                     /\ r.order = FetchedOrder(orderId, timestamp)
                ELSE ~r.isEligible /\ r.error /\ r.order = Undefined]_vars

\* C25: removeOrders called with what is no array, and the OrderCreated
\* handler given arguments it cannot decode, leave the cache as it was,
\* publish nothing and throw nothing.
C25_MalformedInputDropped ==
    [][(Calls("removeOrders") \/ Calls("OrderCreated")) =>
          /\ orderCache' = orderCache
          /\ lastPublish' = lastPublish
          /\ ~lastCall'.threw]_vars

\* removeOrders has been called with the number 0, no array, while order 0 is
\* cached and a callback is registered for ordersUpdated: the last publication
\* is still the OrderCreated of order 0.
C25_Witness ==
    /\ lastCall.op = "removeOrders" /\ lastCall.args = <<NumKey(0)>>
    /\ 0 \in DOMAIN orderCache
    /\ "ordersUpdated" \in DOMAIN subscribers /\ subscribers["ordersUpdated"] # <<>>
    /\ lastPublish.event = "OrderCreated"

\* C30: reconnectAttempts is never below 0 nor above maxReconnectAttempts,
\* whatever initialize calls fail, providers disconnect and reconnect() calls
\* run side by side.
C30_AttemptsInRange ==
    reconnectAttempts \in 0 .. MaxReconnectAttempts

\* The counter is at its maximum while one call of reconnect() has given up
\* and another, started before, is still in its wait.
C30_Witness ==
    /\ reconnectAttempts = MaxReconnectAttempts
    /\ \E p, q \in Procs : /\ procs[p].pc = "ret215"
                            /\ procs[q].pc = "timer222"
                            /\ procs[q].attempt = MaxReconnectAttempts

\* The contract.on handlers of one event kind that are registered on open
\* providers: one for each contract that setupEventListeners has run on.
Handlers == {h \in Procs \X (1 .. NProcs) :
                provs[h[1]].state = "open" /\ h[2] <= provs[h[1]].orders}

\* C29: whatever calls of initialize, reconnections and disconnections have
\* run, overlapping or not, at most one handler of each event kind is
\* registered with the transport, so that a ledger event is handled once.
C29_OneHandlerPerEventKind ==
    Cardinality(Handlers) <= 1

\* C28: the contract.on handlers of a contract are registered in the step in
\* which the syncAllOrders of the same call of initialize has published
\* orderSyncComplete, and a handler runs (writes the cache, publishes) only
\* when it is registered and a bootstrap has ended, which overlapping calls
\* of initialize do not change.
C28_ResyncBeforeIncremental ==
    [][/\ \A c \in Procs :
            provs'[c].orders > provs[c].orders =>
               \E p \in Procs : /\ EndsSync(p) /\ procs'[p].pc = "ret50"
                                 /\ procs[p].contract = c
                                 /\ lastPublish'.event = "orderSyncComplete"
       /\ \A c \in Procs :
            Delivers(c) => provs[c].orders > 0 /\ isInitialized
       /\ \A c \in Procs :
            provs'[c].feed # <<>> => provs'[c].orders > 0]_vars

\* A handler has published OrderCreated while another call of initialize is
\* still in its syncAllOrders.
C28_Witness ==
    /\ lastPublish.event = "OrderCreated"
    /\ \E q \in Procs : procs[q].pc \in SyncPcs /\ procs[q].kind = "init"

\* A handler of provider c runs for one event in this step.
Handles(c) == /\ provs[c].feed # <<>>
              /\ provs'[c].state = provs[c].state
              /\ Len(provs'[c].feed) = Len(provs[c].feed) - 1
              /\ ledger' = ledger

\* C27: a handler runs for the event that arrived first among those waiting,
\* which leaves the later ones (those of the same order id among them)
\* waiting in their order; within its step it has written the cache entry of
\* that event's id, and no other, and has published that event with the
\* entry, if it publishes.
C27_ArrivalOrderPerId ==
    [][\A c \in Procs : Handles(c) =>
          LET e == Head(provs[c].feed)
          IN  /\ provs'[c].feed = Tail(provs[c].feed)
              /\ \A i \in Ids \ {e.id} :
                    /\ i \in DOMAIN orderCache' <=> i \in DOMAIN orderCache
                    /\ i \in DOMAIN orderCache => orderCache'[i] = orderCache[i]
              /\ e.kind = "OrderCreated" =>
                    /\ e.id \in DOMAIN orderCache'
                    /\ orderCache'[e.id].status = "Active"
              /\ (e.kind # "OrderCreated" /\ e.id \in DOMAIN orderCache) =>
                    orderCache'[e.id].status =
                       (IF e.kind = "OrderFilled" THEN "Filled" ELSE "Canceled")
              /\ (e.kind = "OrderCreated" \/ e.id \in DOMAIN orderCache) =>
                    /\ lastPublish'.event = e.kind
                    /\ lastPublish'.data = orderCache'[e.id]
              /\ (e.kind # "OrderCreated" /\ e.id \notin DOMAIN orderCache) =>
                    lastPublish' = lastPublish /\ orderCache' = orderCache]_vars

\* OrderFilled has been published for order 0 to a subscriber, after its
\* OrderCreated, while an event of order 1 is still waiting.
C27_Witness ==
    /\ lastPublish.event = "OrderFilled" /\ lastPublish.data.id = 0
    /\ lastPublish.invoked # <<>>
    /\ \E c \in Procs : /\ provs[c].feed # <<>>
                        /\ Head(provs[c].feed).id = 1


\* ---------------------------------------------------------------- C24
\* What MyOrders holds: the ids and statuses of this.orders
MyOrdersHeld ==
    {[id |-> myOrders.orders[i].id, status |-> myOrders.orders[i].status] :
        i \in DOMAIN myOrders.orders}

\* The cache's entries whose maker is the user's address, as ids and statuses
CacheOfUser ==
    {[id |-> o.id, status |-> o.status] : o \in {x \in Values(orderCache) : IsMine(x)}}

\* MyOrders has loaded, none of its async functions waits, and no
\* syncAllOrders is under way.
HandlersFinished ==
    /\ myOrders.pc = "loaded"
    /\ myOrders.pending = <<>>
    /\ \A p \in Procs : procs[p].pc \in FreePcs

\* C24: once all handlers have finished, the ids and statuses that MyOrders
\* holds are those of the cache's entries whose maker is the user's address,
\* also after a resync and after removeOrders.
C24_ConsistentProjection == HandlersFinished => MyOrdersHeld = CacheOfUser


\* ---------------------------------------------------------------- C26
\* The step is a publication that calls an async callback of MyOrders: a
\* contract.on handler runs for an OrderCreated event, or a syncAllOrders
\* ends, MyOrders having subscribed.
AsyncCallbackCalled ==
    /\ myOrders.pc # "idle"
    /\ \/ \E c \in Procs : /\ provs[c].feed # <<>>
                            /\ provs'[c].feed = Tail(provs[c].feed)
                            /\ Head(provs[c].feed).kind = "OrderCreated"
       \/ \E p \in Procs : procs[p].pc \in SyncPcs /\ procs'[p].pc \in ReturnPcs

\* The step is the end of work that waited for getAccount(), done or failed.
DownstreamEnds == Len(myOrders'.pending) < Len(myOrders.pending)

\* C26: a publication that calls an async callback of MyOrders is over with
\* the callback's work still waiting and this.orders as it was; and the end of
\* such work, done or failed, changes nothing in the service and nothing in
\* the other work that waits.
C26_FireAndForget ==
    [][/\ AsyncCallbackCalled =>
              /\ Len(myOrders'.pending) = Len(myOrders.pending) + 1
              /\ myOrders'.pending[Len(myOrders'.pending)].kind \in {"sync", "created"}
              /\ MyOrdersHeld' = MyOrdersHeld
       /\ DownstreamEnds =>
              /\ myOrders'.pending = Tail(myOrders.pending)
              /\ UNCHANGED <<ledger, nextOrderId, isInitialized, reconnectAttempts,
                             orderCache, subscribers, provider, provs, procs,
                             lastPublish>>]_vars

\* Work of an earlier publication waits while a later OrderCreated has been
\* handled and published, after a getAccount() that was rejected.
C26_Witness ==
    /\ Len(myOrders.pending) >= 2
    /\ lastPublish.event = "OrderCreated"
    /\ MyOrdersCallback("OrderCreated") \in Range(lastPublish.invoked)
    /\ lastPublish.data.id \in DOMAIN orderCache
    /\ lastCall.op = "getAccount" /\ lastCall.threw


\* ---------------------------------------------------------------- C31
\* The step makes a connection in slot p (new WebSocketProvider, line 29)
Connects(p) == provs[p].state # "connecting" /\ provs'[p].state = "connecting"

\* The connections that the call of initialize() in slot p has made so far,
\* itself and through reconnect(), when it was started with the counter at 0
\* and no attempt of it has succeeded: each failed attempt but the last has
\* raised the counter by one.
Connections(p) ==
    CASE procs[p].pc = "ready32" -> reconnectAttempts + 1
      [] procs[p].pc = "timer222" -> reconnectAttempts
      [] procs[p].pc = "ret215" -> reconnectAttempts + 1
      [] OTHER -> 0

\* The call in slot p is under way / has returned.
Running(p) == procs[p].pc \in {"ready32", "timer222", "next148", "orders160"}
HasReturned(p) == procs[p].pc \in {"ret23", "ret50", "ret215"}

\* C31: every call of initialize() returns true or false in the end; and a
\* call started with the counter at 0 whose attempts all fail makes a
\* connection at each step counted by Connections, none elsewhere, and returns
\* false when it has made MaxReconnectAttempts + 1 of them.
C31_ReturnsAfterAllAttempts ==
    /\ [][\A p \in Procs :
             /\ Connects(p) => Connections(p)' = Connections(p) + 1
             /\ (~Connects(p) /\ procs[p].pc \in {"ready32", "timer222"}
                              /\ procs'[p].pc \in {"ready32", "timer222", "ret215"})
                   => Connections(p)' = Connections(p)
             /\ (procs[p].pc # "ret215" /\ procs'[p].pc = "ret215")
                   => Connections(p)' = MaxReconnectAttempts + 1]_vars
    /\ \A p \in Procs : Running(p) ~> HasReturned(p)

\* A call has returned false after MaxReconnectAttempts + 1 failed connections.
C31_Witness ==
    \E p \in Procs : /\ procs[p].pc = "ret215"
                      /\ procs[p].kind = "init"
                      /\ provs[p].state = "failed"
                      /\ Connections(p) = MaxReconnectAttempts + 1
                      /\ ~isInitialized


\* ---------------------------------------------------------------- C32
\* The call in slot p was made from outside after another call had returned
\* false.
LaterCall(p) ==
    /\ procs[p].kind = "init"
    /\ \E q \in Procs \ {p} : procs[q].pc = "ret215"

\* C32: a call of initialize() from outside with the retries exhausted makes
\* one connection; if the connection fails the call returns false with no
\* timer set and the counter as it was, and if it is made the call returns
\* true with isInitialized set and the counter at 0.
C32_RetryableFromOutside ==
    [][\A p \in Procs :
          /\ (Exhausted /\ procs[p].pc = "idle" /\ procs'[p].pc # "idle")
                => /\ Connects(p)
                   /\ procs'[p].pc = "ready32"
                   /\ provider' = p
                   /\ reconnectAttempts' = reconnectAttempts
          /\ (LaterCall(p) /\ procs[p].pc = "ready32"
                           /\ procs'[p].pc \notin {"ready32", "next148"})
                => /\ procs'[p].pc = "ret215"
                   /\ procs'[p].delay = 0
                   /\ reconnectAttempts' = reconnectAttempts
                   /\ provs'[p].state = "failed"
          /\ (LaterCall(p) /\ procs[p].pc \in SyncPcs /\ procs'[p].pc \notin SyncPcs)
                => /\ procs'[p].pc = "ret50"
                   /\ isInitialized'
                   /\ reconnectAttempts' = 0]_vars

\* A call made after the retries were exhausted has connected and returned
\* true: the service is ready and the counter is back at 0.
C32_Witness ==
    \E p \in Procs : /\ LaterCall(p)
                      /\ procs[p].pc = "ret50"
                      /\ isInitialized
                      /\ reconnectAttempts = 0
                      /\ provs[p].state = "open"


\* ---------------------------------------------------------------- C33
\* The step is a call of initialize() that is made in slot p.
InitializeCalled(p) ==
    procs[p].pc \in FreePcs /\ procs'[p] # procs[p] /\ procs'[p].kind = "init"

\* C33: a call of initialize() made while isInitialized is true returns true
\* at once and leaves the provider, the providers' handlers, the cache, the
\* subscribers, the counter and the flag as they were, and publishes nothing.
C33_InitializeIdempotent ==
    [][\A p \in Procs :
          (isInitialized /\ InitializeCalled(p))
             => /\ procs'[p].pc = "ret23"
                /\ UNCHANGED <<provider, provs, orderCache, subscribers,
                               reconnectAttempts, isInitialized, lastPublish>>]_vars

\* A call has returned true at line 23, the service holding orders,
\* subscribers and an open provider with handlers.
C33_Witness ==
    \E p \in Procs : /\ procs[p].pc = "ret23"
                      /\ isInitialized
                      /\ orderCache # EmptyMap
                      /\ subscribers # EmptyMap
                      /\ provider # 0
                      /\ provs[provider].state = "open"
                      /\ provs[provider].orders > 0


\* ---------------------------------------------------------------- C34
\* C34: every entry of the cache is kept under the id of its own record, so
\* that no id is found under two keys.
C34_KeyedByOwnId ==
    /\ \A k \in DOMAIN orderCache : orderCache[k].id = k
    /\ \A k1, k2 \in DOMAIN orderCache :
          orderCache[k1].id = orderCache[k2].id => k1 = k2

\* The cache holds two orders, of which a handler has just canceled one.
C34_Witness ==
    /\ Cardinality(DOMAIN orderCache) >= 2
    /\ lastPublish.event = "OrderCanceled"
    /\ \E k \in DOMAIN orderCache : orderCache[k].status = "Canceled"
    /\ \E k \in DOMAIN orderCache : orderCache[k].status = "Active"


\* ---------------------------------------------------------------- C35
\* The spellings of the user's address, which differ in case only
UserSpellings == {"0xA", "0xa"}

\* The step runs a contract.on handler for the event e of a provider's feed,
\* MyOrders having subscribed.
HandledFor(e) ==
    /\ myOrders.pc # "idle"
    /\ \E c \in Procs : /\ provs[c].feed # <<>>
                         /\ provs'[c].feed = Tail(provs[c].feed)
                         /\ Head(provs[c].feed) = e

\* C35: MyOrders holds only orders whose maker is the user's address in some
\* spelling; and a step that handles an OrderFilled or OrderCanceled event
\* leaves the set of orders it holds as it is and changes no order but the
\* event's.
C35_OnlyTheUsersOrders ==
    /\ [](\A i \in DOMAIN myOrders.orders :
             /\ myOrders.orders[i].maker \in UserSpellings
             /\ myOrders.orders[i].id = i)
    /\ [][\A c \in Procs :
             LET e == Head(provs[c].feed)
             IN  (provs[c].feed # <<>> /\ HandledFor(e)
                    /\ e.kind \in {"OrderFilled", "OrderCanceled"})
                   => /\ DOMAIN myOrders'.orders = DOMAIN myOrders.orders
                      /\ \A i \in DOMAIN myOrders.orders \ {e.id} :
                            /\ myOrders'.orders[i].maker = myOrders.orders[i].maker
                            /\ myOrders'.orders[i].status = myOrders.orders[i].status]_vars

\* MyOrders holds an order of the user, spelled otherwise than the wallet
\* spells the address, whose status a callback has set to Filled, while the
\* cache also holds another maker's order.
C35_Witness ==
    /\ \E i \in DOMAIN myOrders.orders :
          /\ myOrders.orders[i].maker # UserAddress
          /\ myOrders.orders[i].status = "Filled"
    /\ \E k \in DOMAIN orderCache : orderCache[k].maker = OtherMaker
    /\ lastPublish.event = "OrderFilled"
    /\ MyOrdersCallback("OrderFilled") \in Range(lastPublish.invoked)


\* ---------------------------------------------------------------- C36
\* MyOrders has subscribed a callback.
MyOrdersSubscribed ==
    \E ev \in MyOrdersEvents :
        ev \in DOMAIN subscribers /\ MyOrdersCallback(ev) \in Range(subscribers[ev])

CleanupEnds(pc) ==
    /\ cleanup.pc = "polling" \/ cleanup'.calls = cleanup.calls + 1
    /\ cleanup'.pc = pc

\* What the Set of eventName holds, in insertion order
SubscribersOf(subs, eventName) ==
    IF eventName \in DOMAIN subs THEN subs[eventName] ELSE <<>>

\* C37: Cleanup.initialize waits at most 10 polls; a service that is still not
\* initialized with a contract after the tenth makes the call fail with
\* nothing subscribed; the registry only changes while the service is
\* initialized with a contract; and every call that succeeds appends one
\* callback that was not there to each of OrderCleaned, OrderCanceled,
\* OrderFilled and orderSyncComplete, and to no other event.
C37_BoundedWaitThenSubscribe ==
    /\ [](/\ cleanup.attempts \in 0 .. MaxAttempts
          /\ cleanup.pc = "polling" => cleanup.attempts < MaxAttempts)
    /\ [][/\ CleanupEnds("failed")
              => /\ cleanup'.attempts = MaxAttempts
                 /\ subscribers' = subscribers
          /\ (/\ cleanup.pc = "polling"
              /\ cleanup'.attempts = MaxAttempts
              /\ ~(isInitialized /\ cleanup.contract))
              => /\ cleanup'.pc = "failed"
                 /\ subscribers' = subscribers
          /\ subscribers' # subscribers => (isInitialized /\ cleanup.contract)
          /\ CleanupEnds("ready")
              => /\ DOMAIN subscribers' = DOMAIN subscribers \cup Range(CleanupEvents)
                 /\ \A ev \in DOMAIN subscribers' :
                       LET old == SubscribersOf(subscribers, ev)
                       IN  IF ev \in Range(CleanupEvents)
                           THEN /\ Len(subscribers'[ev]) = Len(old) + 1
                                /\ SubSeq(subscribers'[ev], 1, Len(old)) = old
                                /\ subscribers'[ev][Len(old) + 1] \notin Range(old)
                           ELSE subscribers'[ev] = old]_vars

\* The first call has failed after ten polls and the two after it have
\* succeeded: two callbacks for each event.
C37_Witness ==
    /\ cleanup.pc = "ready"
    /\ cleanup.calls = 3
    /\ cleanup.attempts = 0
    /\ \A n \in DOMAIN CleanupEvents :
          SubscribersOf(subscribers, CleanupEvents[n])
              = <<CleanupCallback(CleanupEvents[n], 2), CleanupCallback(CleanupEvents[n], 3)>>

\* performCleanup gets the receipt of a transaction in this step.
GetsReceipt == cleanup'.receipt # cleanup.receipt

\* The syncAllOrders that performCleanup awaits (361) is running in slot p.
CleanupSyncs(p) == procs[p].kind = "sync" /\ procs[p].pc \in SyncPcs

\* C38: a receipt with status 1 that names cleaned orders makes performCleanup
\* call removeOrders with their ids, which publishes ordersUpdated once, and
\* start syncAllOrders, which has published nothing when removeOrders returns
\* and publishes orderSyncComplete when it ends, as it always does; a receipt
\* that names no cleaned order, or a failed transaction, leaves the cache,
\* the publications, the calls in flight and the registry as they were.
C38_RemoveThenResync ==
    /\ [][/\ \A p \in Procs : ConfirmsCleanup(p) =>
                /\ cleanup'.receipt.status = 1
                /\ cleanup'.receipt.cleaned # {}
                /\ lastCall'.args = <<CleanedOrderIds(cleanup'.receipt.cleaned)>>
                /\ orderCache' = DeleteEach(orderCache, lastCall'.args[1])
                /\ lastPublish'.event = "ordersUpdated"
                /\ lastPublish'.calls = 1
                /\ procs'[p].pc = "next148"
          /\ \A p \in Procs : (CleanupSyncs(p) /\ EndsSync(p)) =>
                /\ lastPublish'.event = "orderSyncComplete"
                /\ procs'[p].pc \in {"ret187", "ret192"}
          /\ (GetsReceipt /\ (cleanup'.receipt.status = 0 \/ cleanup'.receipt.cleaned = {}))
                => UNCHANGED <<orderCache, lastPublish, lastCall, procs, subscribers,
                               myOrders>>]_vars
    /\ \A p \in Procs : CleanupSyncs(p) ~> (procs[p].pc \in {"ret187", "ret192"})

\* The cleanup of an order was confirmed, removeOrders has published
\* ordersUpdated and the syncAllOrders after it has ended.
C38_Witness ==
    /\ cleanup.receipt.status = 1
    /\ cleanup.receipt.cleaned # {}
    /\ lastCall.op = "removeOrders"
    /\ lastCall.args = <<CleanedOrderIds(cleanup.receipt.cleaned)>>
    /\ lastPublish.event = "orderSyncComplete"
    /\ \E p \in Procs : procs[p].kind = "sync" /\ procs[p].pc = "ret187"
=============================================================================
